---- MODULE Spec2Model ----
(***************************************************************************)
(* A model of the ABP.IO MCP server (src/src/index.ts): the tool registry   *)
(* assembled by abpTools, the info-only filter, the dispatch handlers for   *)
(* list-tools and call-tool, the per-tool execute functions (argument       *)
(* validation with zod, one HTTP call through AbpApiClient, result          *)
(* envelope), the hybrid UI tools and the process life cycle of main().     *)
(*                                                                         *)
(* Conventions                                                             *)
(*  - A JavaScript object used as a name-keyed table is a function from     *)
(*    its own keys to values; the insertion order of the keys is not        *)
(*    modelled.                                                             *)
(*  - A JavaScript value that is an argument of a tool is a record          *)
(*    [t |-> <typeof>, v |-> <printed value>].                              *)
(*  - The remote API and the MCP SDK are not part of the repository: the    *)
(*    remote answers every HTTP request either with a well-typed 2xx body   *)
(*    or with a failure (axios rejects), chosen nondeterministically; the   *)
(*    SDK answers a request whose handler throws with a JSON-RPC error and  *)
(*    keeps serving.                                                        *)
(***************************************************************************)
EXTENDS Integers, Sequences, FiniteSets, TLC

VARIABLES
    options,       \* program.opts(): [apiKey, infoOnlyMode, stdio]
    pc,            \* where main() stands: "start", "testing", "done", "exited"
    connected,     \* server.connect(transport) has resolved
    exitCode,      \* status given to process.exit, NoExit while running
    toolHandlers,  \* the table the two request handlers close over
    request,       \* the request being answered last
    response,      \* what was sent back for it
    effects,       \* what serving it did: [calls, executed, exit, remote]
    registry,      \* filter study: the table given to filterInfoOnlyTools
    filtered,      \* filter study: the table it returned
    listings,      \* the results of the last two list-tools requests
    startup        \* what main() logged, and how the connection test went

vars == <<options, pc, connected, exitCode, toolHandlers, request, response,
          effects, registry, filtered, listings, startup>>

-----------------------------------------------------------------------------
(* Bounds of the model *)

\* entries of a registry handed to filterInfoOnlyTools in the filter study
MaxRegistry == 3

\* items in the body the remote answers a list request with
MaxItems == 2

\* tools of a group handed to the registry construction in the merge study
MaxGroup == 2
\* instants the clock may show when a request is served: 0..MaxClock
MaxClock == 1
\* jobs in a list of background jobs, and tries a job may have or be allowed
MaxJobs == 2
MaxTry == 1

-----------------------------------------------------------------------------
(* JavaScript values that occur as tool arguments *)

JsString(s) == [t |-> "string", v |-> s]
JsNumber == [t |-> "number", v |-> "1"]
JsBoolean == [t |-> "boolean", v |-> "true"]
\* an array whose elements all conform to the item schema of the field
JsArray == [t |-> "array", v |-> "conforming items"]
\* an array with an element that does not conform to the item schema
JsBadArray == [t |-> "array", v |-> "non-conforming item"]
JsObject == [t |-> "object", v |-> "{}"]
Undefined == [t |-> "undefined", v |-> "undefined"]

\* an object without own properties, `{}`
EmptyObject == [k \in {} |-> Undefined]

\* obj[key] for an own key, undefined otherwise (argument objects are parsed
\* JSON: their prototype plays no part in the fields read here)
Get(obj, key) == IF key \in DOMAIN obj THEN obj[key] ELSE Undefined

\* const { key, ...rest } = obj
Rest(obj, key) == [k \in DOMAIN obj \ {key} |-> obj[k]]

-----------------------------------------------------------------------------
(* The declared parameter schema (inputSchema, JSON schema) of a tool *)

JStr == [type |-> "string", enum |-> {}]
JEnum(S) == [type |-> "string", enum |-> S]
JNum == [type |-> "number", enum |-> {}]
JBool == [type |-> "boolean", enum |-> {}]
JArr == [type |-> "array", enum |-> {}]
JObj == [type |-> "object", enum |-> {}]
\* `{}`: any value
JAny == [type |-> "any", enum |-> {}]

InputSchema(properties, required) ==
    [type |-> "object", properties |-> properties, required |-> required]

\* value conforms to one property of a declared schema
ConformsDeclared(p, value) ==
    \/ p.type = "any"
    \/ /\ value.t = p.type
       /\ p.enum # {} => value.v \in p.enum
       /\ p.type = "array" => value = JsArray

\* args violate the declared schema: a required parameter is missing, or a
\* declared parameter has the wrong type or a value outside its enum
ViolatesDeclared(schema, args) ==
    \/ \E f \in schema.required : f \notin DOMAIN args
    \/ \E f \in DOMAIN schema.properties \cap DOMAIN args :
          ~ConformsDeclared(schema.properties[f], args[f])

-----------------------------------------------------------------------------
(* zod schemas: z.object({...}) as a function from keys to field checks *)

ZField(type, enum) ==
    [type |-> type, enum |-> enum, optional |-> FALSE,
     hasDefault |-> FALSE, default |-> Undefined]
ZStr == ZField("string", {})
ZNum == ZField("number", {})
ZBool == ZField("boolean", {})
ZArr == ZField("array", {})
\* an enum check that accepts every string
ZEnumAnyString(S) == ZField("string", {})
ZEnum(S) == ZField("enum", S)
\* z.any() accepts every value, undefined included
ZAny == [ZField("any", {}) EXCEPT !.optional = TRUE]
\* .optional()
Opt(z) == [z EXCEPT !.optional = TRUE]
\* .default(d)
Dflt(z, d) == [z EXCEPT !.optional = TRUE, !.hasDefault = TRUE, !.default = d]

\* one field check accepts a present value
ZAccepts(z, value) ==
    CASE z.type = "any" -> TRUE
      [] z.type = "enum" -> value.t = "string" /\ value.v \in z.enum
      [] z.type = "array" -> value = JsArray
      [] OTHER -> value.t = z.type

\* the issues schema.parse(args) raises, by key
ZodIssues(schema, args) ==
    {f \in DOMAIN schema :
        IF f \in DOMAIN args THEN ~ZAccepts(schema[f], args[f])
                             ELSE ~schema[f].optional}

\* the object schema.parse(args) returns when it raises no issue: the keys of
\* the schema only (unknown keys are stripped), defaults filled in
ZodOutput(schema, args) ==
    [f \in {g \in DOMAIN schema : g \in DOMAIN args \/ schema[g].hasDefault} |->
        IF f \in DOMAIN args THEN args[f] ELSE schema[f].default]

\* ZodError.message
ZodErrorMessage == "ZodError: the arguments do not match the schema"

-----------------------------------------------------------------------------
(* Tool handlers: { name, description, inputSchema, execute } *)

NoProperties == [k \in {} |-> JAny]
NoFields == [k \in {} |-> ZAny]

\* The execute closure of a handler, described by what its body does:
\*   module    the group function that built it (it closes over apiClient)
\*   kind      "remote": awaits one AbpApiClient method and wraps its answer;
\*             "static": returns a literal; "hybrid": either, see ExecuteHybrid
\*   validates the body runs z.object(zod).parse(args) before anything else
\*   op        the AbpApiClient method it awaits ("" when none)
\*   returns   the keys of the object it returns
Closure(module, kind, validates, zod, op, returns) ==
    [module |-> module, kind |-> kind, validates |-> validates, zod |-> zod,
     op |-> op, returns |-> returns]

Handler(name, description, inputSchema, execute) ==
    [name |-> name, description |-> description, inputSchema |-> inputSchema,
     execute |-> execute]

\* An object literal { key: handler, ... } with the given properties, each
\* written key :> handler; no literal of the repository repeats a key
Table(properties) ==
    [k \in UNION {DOMAIN p : p \in properties} |->
        (CHOOSE p \in properties : k \in DOMAIN p)[k]]

\* applicationTools (src/src/tools/entity-tools.ts)
applicationTools ==
    Table({
      "abp_get_applications" :> Handler("abp_get_applications",
        "Get all ABP applications",
        InputSchema(
                   NoProperties,
                {}),
        Closure("applicationTools", "remote", FALSE,
                   NoFields,
                "getApplications", {"success", "data", "count"})),
      "abp_get_application" :> Handler("abp_get_application",
        "Get a specific ABP application by ID",
        InputSchema(
                   ("id" :> JStr),
                {"id"}),
        Closure("applicationTools", "remote", TRUE,
                   ("id" :> ZStr),
                "getApplication", {"success", "data"})),
      "abp_create_application" :> Handler("abp_create_application",
        "Create a new ABP application",
        InputSchema(
                   ("name" :> JStr)
                @@ ("displayName" :> JStr)
                @@ ("template" :> JEnum({"app", "microservice", "module", "console"}))
                @@ ("framework" :> JEnum({"mvc", "angular", "blazor", "blazor-server", "react-native", "maui"}))
                @@ ("database" :> JEnum({"ef", "mongodb", "dapper"}))
                @@ ("connectionString" :> JStr),
                {"name", "displayName", "template"}),
        Closure("applicationTools", "remote", TRUE,
                   ("name" :> ZStr)
                @@ ("displayName" :> ZStr)
                @@ ("template" :> ZEnum({"app", "microservice", "module", "console"}))
                @@ ("framework" :> Opt(ZEnum({"mvc", "angular", "blazor", "blazor-server", "react-native", "maui"})))
                @@ ("database" :> Opt(ZEnum({"ef", "mongodb", "dapper"})))
                @@ ("connectionString" :> Opt(ZStr)),
                "createApplication", {"success", "data", "message"})),
      "abp_update_application" :> Handler("abp_update_application",
        "Update an existing ABP application",
        InputSchema(
                   ("id" :> JStr)
                @@ ("displayName" :> JStr)
                @@ ("url" :> JStr)
                @@ ("status" :> JEnum({"Running", "Stopped", "Error"})),
                {"id"}),
        Closure("applicationTools", "remote", TRUE,
                   ("id" :> ZStr)
                @@ ("displayName" :> Opt(ZStr))
                @@ ("url" :> Opt(ZStr))
                @@ ("status" :> Opt(ZEnum({"Running", "Stopped", "Error"}))),
                "updateApplication", {"success", "data", "message"})),
      "abp_delete_application" :> Handler("abp_delete_application",
        "Delete an ABP application",
        InputSchema(
                   ("id" :> JStr),
                {"id"}),
        Closure("applicationTools", "remote", TRUE,
                   ("id" :> ZStr),
                "deleteApplication", {"success", "message"}))
    })

\* moduleTools (src/unnamed/part_003)
moduleTools ==
    Table({
      "abp_get_modules" :> Handler("abp_get_modules",
        "Get all ABP modules",
        InputSchema(
                   NoProperties,
                {}),
        Closure("moduleTools", "remote", FALSE,
                   NoFields,
                "getModules", {"success", "data", "count", "installed", "available"})),
      "abp_get_module" :> Handler("abp_get_module",
        "Get a specific ABP module by ID",
        InputSchema(
                   ("id" :> JStr),
                {"id"}),
        Closure("moduleTools", "remote", TRUE,
                   ("id" :> ZStr),
                "getModule", {"success", "data"})),
      "abp_install_module" :> Handler("abp_install_module",
        "Install an ABP module by package name",
        InputSchema(
                   ("packageName" :> JStr)
                @@ ("version" :> JStr)
                @@ ("includePrerelease" :> JBool),
                {"packageName"}),
        Closure("moduleTools", "remote", TRUE,
                   ("packageName" :> ZStr)
                @@ ("version" :> Opt(ZStr))
                @@ ("includePrerelease" :> Dflt(ZBool, [t |-> "boolean", v |-> "false"])),
                "installModule", {"success", "data", "message"})),
      "abp_uninstall_module" :> Handler("abp_uninstall_module",
        "Uninstall an ABP module",
        InputSchema(
                   ("id" :> JStr),
                {"id"}),
        Closure("moduleTools", "remote", TRUE,
                   ("id" :> ZStr),
                "uninstallModule", {"success", "message"})),
      "abp_get_popular_modules" :> Handler("abp_get_popular_modules",
        "Get list of popular ABP modules with descriptions",
        InputSchema(
                   NoProperties,
                {}),
        Closure("moduleTools", "static", FALSE,
                   NoFields,
                "", {"success", "data", "count", "categories"}))
    })

\* entityTools (src/src/tools/entity-tools.ts)
entityTools ==
    Table({
      "abp_get_entities" :> Handler("abp_get_entities",
        "Get all ABP entities, optionally filtered by namespace",
        InputSchema(
                   ("namespace" :> JStr),
                {}),
        Closure("entityTools", "remote", TRUE,
                   ("namespace" :> Opt(ZStr)),
                "getEntities", {"success", "data", "count"})),
      "abp_get_entity" :> Handler("abp_get_entity",
        "Get a specific ABP entity by ID",
        InputSchema(
                   ("id" :> JStr),
                {"id"}),
        Closure("entityTools", "remote", TRUE,
                   ("id" :> ZStr),
                "getEntity", {"success", "data"})),
      "abp_create_entity" :> Handler("abp_create_entity",
        "Create a new ABP entity",
        InputSchema(
                   ("name" :> JStr)
                @@ ("namespace" :> JStr)
                @@ ("baseClass" :> JStr)
                @@ ("isAuditedEntity" :> JBool)
                @@ ("isMultiTenant" :> JBool)
                @@ ("properties" :> JArr),
                {"name", "namespace"}),
        Closure("entityTools", "remote", FALSE,
                   NoFields,
                "createEntity", {"success", "data", "message"})),
      "abp_generate_crud" :> Handler("abp_generate_crud",
        "Generate CRUD operations for an ABP entity",
        InputSchema(
                   ("entityId" :> JStr)
                @@ ("generateUI" :> JBool)
                @@ ("generateAPI" :> JBool)
                @@ ("generateTests" :> JBool),
                {"entityId"}),
        Closure("entityTools", "remote", FALSE,
                   NoFields,
                "generateCrud", {"success", "data", "message"}))
    })

\* userTools (src/src/tools/user-tools.ts)
userTools ==
    Table({
      "abp_get_users" :> Handler("abp_get_users",
        "Get all ABP users with optional filtering",
        InputSchema(
                   ("filter" :> JStr)
                @@ ("maxResultCount" :> JNum),
                {}),
        Closure("userTools", "remote", TRUE,
                   ("filter" :> Opt(ZStr))
                @@ ("maxResultCount" :> Opt(ZNum)),
                "getUsers", {"success", "data", "count", "active", "inactive"})),
      "abp_get_user" :> Handler("abp_get_user",
        "Get a specific ABP user by ID",
        InputSchema(
                   ("id" :> JStr),
                {"id"}),
        Closure("userTools", "remote", TRUE,
                   ("id" :> ZStr),
                "getUser", {"success", "data"})),
      "abp_create_user" :> Handler("abp_create_user",
        "Create a new ABP user",
        InputSchema(
                   ("userName" :> JStr)
                @@ ("name" :> JStr)
                @@ ("surname" :> JStr)
                @@ ("email" :> JStr)
                @@ ("password" :> JStr)
                @@ ("phoneNumber" :> JStr)
                @@ ("isActive" :> JBool)
                @@ ("roleNames" :> JArr),
                {"userName", "name", "surname", "email", "password"}),
        Closure("userTools", "remote", FALSE,
                   NoFields,
                "createUser", {"success", "data", "message"})),
      "abp_update_user" :> Handler("abp_update_user",
        "Update an existing ABP user",
        InputSchema(
                   ("id" :> JStr)
                @@ ("userName" :> JStr)
                @@ ("name" :> JStr)
                @@ ("surname" :> JStr)
                @@ ("email" :> JStr)
                @@ ("phoneNumber" :> JStr)
                @@ ("isActive" :> JBool)
                @@ ("roleNames" :> JArr),
                {"id"}),
        Closure("userTools", "remote", FALSE,
                   NoFields,
                "updateUser", {"success", "data", "message"})),
      "abp_delete_user" :> Handler("abp_delete_user",
        "Delete an ABP user",
        InputSchema(
                   ("id" :> JStr),
                {"id"}),
        Closure("userTools", "remote", TRUE,
                   ("id" :> ZStr),
                "deleteUser", {"success", "message"}))
    })

\* tenantTools (src/unnamed/part_000)
tenantTools ==
    Table({
      "abp_get_tenants" :> Handler("abp_get_tenants",
        "Get all ABP tenants with optional filtering",
        InputSchema(
                   ("filter" :> JStr),
                {}),
        Closure("tenantTools", "remote", TRUE,
                   ("filter" :> Opt(ZStr)),
                "getTenants", {"success", "data", "count", "active", "inactive"})),
      "abp_get_tenant" :> Handler("abp_get_tenant",
        "Get a specific ABP tenant by ID",
        InputSchema(
                   ("id" :> JStr),
                {"id"}),
        Closure("tenantTools", "remote", TRUE,
                   ("id" :> ZStr),
                "getTenant", {"success", "data"})),
      "abp_create_tenant" :> Handler("abp_create_tenant",
        "Create a new ABP tenant",
        InputSchema(
                   ("name" :> JStr)
                @@ ("isActive" :> JBool)
                @@ ("editionId" :> JStr)
                @@ ("connectionString" :> JStr)
                @@ ("subscriptionEndDateUtc" :> JStr),
                {"name"}),
        Closure("tenantTools", "remote", FALSE,
                   NoFields,
                "createTenant", {"success", "data", "message"})),
      "abp_update_tenant" :> Handler("abp_update_tenant",
        "Update an existing ABP tenant",
        InputSchema(
                   ("id" :> JStr)
                @@ ("name" :> JStr)
                @@ ("isActive" :> JBool)
                @@ ("editionId" :> JStr)
                @@ ("connectionString" :> JStr)
                @@ ("subscriptionEndDateUtc" :> JStr),
                {"id"}),
        Closure("tenantTools", "remote", FALSE,
                   NoFields,
                "updateTenant", {"success", "data", "message"})),
      "abp_delete_tenant" :> Handler("abp_delete_tenant",
        "Delete an ABP tenant",
        InputSchema(
                   ("id" :> JStr),
                {"id"}),
        Closure("tenantTools", "remote", TRUE,
                   ("id" :> ZStr),
                "deleteTenant", {"success", "message"}))
    })

\* permissionTools (src/unnamed/part_001)
permissionTools ==
    Table({
      "abp_get_permissions" :> Handler("abp_get_permissions",
        "Get ABP permissions with optional provider filtering",
        InputSchema(
                   ("providerName" :> JStr)
                @@ ("providerKey" :> JStr),
                {}),
        Closure("permissionTools", "remote", TRUE,
                   ("providerName" :> Opt(ZStr))
                @@ ("providerKey" :> Opt(ZStr)),
                "getPermissions", {"success", "data", "count", "groups"})),
      "abp_get_permissions_by_group" :> Handler("abp_get_permissions_by_group",
        "Get ABP permissions by group name",
        InputSchema(
                   ("groupName" :> JStr),
                {"groupName"}),
        Closure("permissionTools", "remote", TRUE,
                   ("groupName" :> ZStr),
                "getPermissionsByGroup", {"success", "data", "count"})),
      "abp_grant_permission" :> Handler("abp_grant_permission",
        "Grant a permission to a user or role",
        InputSchema(
                   ("providerName" :> JEnum({"R", "U"}))
                @@ ("providerKey" :> JStr)
                @@ ("permissionName" :> JStr),
                {"providerName", "providerKey", "permissionName"}),
        Closure("permissionTools", "remote", TRUE,
                   ("providerName" :> ZEnum({"R", "U"}))
                @@ ("providerKey" :> ZStr)
                @@ ("permissionName" :> ZStr),
                "grantPermission", {"success", "message"})),
      "abp_revoke_permission" :> Handler("abp_revoke_permission",
        "Revoke a permission from a user or role",
        InputSchema(
                   ("providerName" :> JEnum({"R", "U"}))
                @@ ("providerKey" :> JStr)
                @@ ("permissionName" :> JStr),
                {"providerName", "providerKey", "permissionName"}),
        Closure("permissionTools", "remote", TRUE,
                   ("providerName" :> ZEnum({"R", "U"}))
                @@ ("providerKey" :> ZStr)
                @@ ("permissionName" :> ZStr),
                "revokePermission", {"success", "message"}))
    })

\* auditTools (src/src/tools/audit-tools.ts)
auditTools ==
    Table({
      "abp_get_audit_logs" :> Handler("abp_get_audit_logs",
        "Get ABP audit logs with optional filtering",
        InputSchema(
                   ("startDate" :> JStr)
                @@ ("endDate" :> JStr)
                @@ ("userId" :> JStr),
                {}),
        Closure("auditTools", "remote", TRUE,
                   ("startDate" :> Opt(ZStr))
                @@ ("endDate" :> Opt(ZStr))
                @@ ("userId" :> Opt(ZStr)),
                "getAuditLogs", {"success", "data", "count", "dateRange", "uniqueUsers", "uniqueServices"})),
      "abp_get_audit_log" :> Handler("abp_get_audit_log",
        "Get a specific ABP audit log by ID",
        InputSchema(
                   ("id" :> JStr),
                {"id"}),
        Closure("auditTools", "remote", TRUE,
                   ("id" :> ZStr),
                "getAuditLog", {"success", "data"})),
      "abp_get_audit_summary" :> Handler("abp_get_audit_summary",
        "Get a summary of audit log statistics",
        InputSchema(
                   ("days" :> JNum),
                {}),
        Closure("auditTools", "remote", TRUE,
                   ("days" :> Dflt(ZNum, [t |-> "number", v |-> "7"])),
                "getAuditLogs", {"success", "data"}))
    })

\* backgroundJobTools (src/unnamed/part_004)
backgroundJobTools ==
    Table({
      "abp_get_background_jobs" :> Handler("abp_get_background_jobs",
        "Get ABP background jobs with optional type filtering",
        InputSchema(
                   ("jobType" :> JStr),
                {}),
        Closure("backgroundJobTools", "remote", TRUE,
                   ("jobType" :> Opt(ZStr)),
                "getBackgroundJobs", {"success", "data", "count", "pending", "completed", "abandoned", "jobTypes"})),
      "abp_get_background_job" :> Handler("abp_get_background_job",
        "Get a specific ABP background job by ID",
        InputSchema(
                   ("id" :> JStr),
                {"id"}),
        Closure("backgroundJobTools", "remote", TRUE,
                   ("id" :> ZStr),
                "getBackgroundJob", {"success", "data"})),
      "abp_enqueue_background_job" :> Handler("abp_enqueue_background_job",
        "Enqueue a new ABP background job",
        InputSchema(
                   ("jobType" :> JStr)
                @@ ("args" :> JObj)
                @@ ("priority" :> JEnum({"Low", "Normal", "High"})),
                {"jobType", "args"}),
        Closure("backgroundJobTools", "remote", TRUE,
                   ("jobType" :> ZStr)
                @@ ("args" :> ZAny)
                @@ ("priority" :> Dflt(ZEnum({"Low", "Normal", "High"}), JsString("Normal"))),
                "enqueueBackgroundJob", {"success", "data", "message"})),
      "abp_delete_background_job" :> Handler("abp_delete_background_job",
        "Delete an ABP background job",
        InputSchema(
                   ("id" :> JStr),
                {"id"}),
        Closure("backgroundJobTools", "remote", TRUE,
                   ("id" :> ZStr),
                "deleteBackgroundJob", {"success", "message"})),
      "abp_get_common_job_types" :> Handler("abp_get_common_job_types",
        "Get list of common ABP background job types",
        InputSchema(
                   NoProperties,
                {}),
        Closure("backgroundJobTools", "static", FALSE,
                   NoFields,
                "", {"success", "data", "count", "categories"}))
    })

\* uiTools (src/src/tools/ui-tools.ts)
uiTools ==
    Table({
      "abp_generate_page" :> Handler("abp_generate_page",
        "Generate specific pages (list, detail, create, edit, modal) for ABP applications",
        InputSchema(
                   ("name" :> JStr)
                @@ ("type" :> JEnum({"list", "detail", "create", "edit", "modal"}))
                @@ ("entityId" :> JStr)
                @@ ("framework" :> JEnum({"mvc", "angular", "blazor", "blazor-server"}))
                @@ ("route" :> JStr)
                @@ ("permissions" :> JArr)
                @@ ("includeSearch" :> JBool)
                @@ ("includePaging" :> JBool)
                @@ ("includeExport" :> JBool),
                {"name", "type", "framework"}),
        Closure("uiTools", "remote", TRUE,
                   ("name" :> ZStr)
                @@ ("type" :> ZEnum({"list", "detail", "create", "edit", "modal"}))
                @@ ("entityId" :> Opt(ZStr))
                @@ ("framework" :> ZEnum({"mvc", "angular", "blazor", "blazor-server"}))
                @@ ("route" :> Opt(ZStr))
                @@ ("permissions" :> Opt(ZArr))
                @@ ("includeSearch" :> Dflt(ZBool, [t |-> "boolean", v |-> "false"]))
                @@ ("includePaging" :> Dflt(ZBool, [t |-> "boolean", v |-> "true"]))
                @@ ("includeExport" :> Dflt(ZBool, [t |-> "boolean", v |-> "false"])),
                "generatePage", {"success", "data", "message"})),
      "abp_get_themes" :> Handler("abp_get_themes",
        "Get all available ABP themes",
        InputSchema(
                   NoProperties,
                {}),
        Closure("uiTools", "remote", FALSE,
                   NoFields,
                "getThemes", {"success", "data", "count"})),
      "abp_get_theme" :> Handler("abp_get_theme",
        "Get a specific ABP theme by name",
        InputSchema(
                   ("name" :> JStr),
                {"name"}),
        Closure("uiTools", "remote", TRUE,
                   ("name" :> ZStr),
                "getTheme", {"success", "data"})),
      "abp_apply_theme" :> Handler("abp_apply_theme",
        "Apply and customize an ABP theme",
        InputSchema(
                   ("name" :> JStr)
                @@ ("primaryColor" :> JStr)
                @@ ("secondaryColor" :> JStr)
                @@ ("customCss" :> JStr),
                {"name"}),
        Closure("uiTools", "remote", TRUE,
                   ("name" :> ZStr)
                @@ ("primaryColor" :> Opt(ZStr))
                @@ ("secondaryColor" :> Opt(ZStr))
                @@ ("customCss" :> Opt(ZStr)),
                "applyTheme", {"success", "data", "message"})),
      "abp_generate_component" :> Handler("abp_generate_component",
        "Generate reusable UI components (widgets, modals, partials, directives, pipes)",
        InputSchema(
                   ("name" :> JStr)
                @@ ("type" :> JEnum({"widget", "modal", "partial", "directive", "pipe"}))
                @@ ("framework" :> JEnum({"mvc", "angular", "blazor", "blazor-server"}))
                @@ ("properties" :> JArr)
                @@ ("template" :> JStr),
                {"name", "type", "framework"}),
        Closure("uiTools", "remote", TRUE,
                   ("name" :> ZStr)
                @@ ("type" :> ZEnum({"widget", "modal", "partial", "directive", "pipe"}))
                @@ ("framework" :> ZEnum({"mvc", "angular", "blazor", "blazor-server"}))
                @@ ("properties" :> Opt(ZArr))
                @@ ("template" :> Opt(ZStr)),
                "generateComponent", {"success", "data", "message"})),
      "abp_get_layouts" :> Handler("abp_get_layouts",
        "Get all available ABP layouts",
        InputSchema(
                   NoProperties,
                {}),
        Closure("uiTools", "remote", FALSE,
                   NoFields,
                "getLayouts", {"success", "data", "count"})),
      "abp_get_layout" :> Handler("abp_get_layout",
        "Get a specific ABP layout by name",
        InputSchema(
                   ("name" :> JStr),
                {"name"}),
        Closure("uiTools", "remote", TRUE,
                   ("name" :> ZStr),
                "getLayout", {"success", "data"})),
      "abp_update_layout" :> Handler("abp_update_layout",
        "Update an ABP layout configuration",
        InputSchema(
                   ("name" :> JStr)
                @@ ("displayName" :> JStr)
                @@ ("description" :> JStr)
                @@ ("template" :> JStr),
                {"name"}),
        Closure("uiTools", "remote", TRUE,
                   ("name" :> ZStr)
                @@ ("displayName" :> Opt(ZStr))
                @@ ("description" :> Opt(ZStr))
                @@ ("template" :> Opt(ZStr)),
                "updateLayout", {"success", "data", "message"})),
      "abp_get_menus" :> Handler("abp_get_menus",
        "Get all application menus",
        InputSchema(
                   NoProperties,
                {}),
        Closure("uiTools", "remote", FALSE,
                   NoFields,
                "getMenus", {"success", "data", "count"})),
      "abp_get_menu" :> Handler("abp_get_menu",
        "Get a specific menu by name",
        InputSchema(
                   ("name" :> JStr),
                {"name"}),
        Closure("uiTools", "remote", TRUE,
                   ("name" :> ZStr),
                "getMenu", {"success", "data"})),
      "abp_add_menu_item" :> Handler("abp_add_menu_item",
        "Add a menu item to an existing menu",
        InputSchema(
                   ("menuName" :> JStr)
                @@ ("name" :> JStr)
                @@ ("displayName" :> JStr)
                @@ ("url" :> JStr)
                @@ ("icon" :> JStr)
                @@ ("order" :> JNum)
                @@ ("requiredPermissionName" :> JStr)
                @@ ("target" :> JStr)
                @@ ("parentName" :> JStr),
                {"menuName", "name", "displayName"}),
        Closure("uiTools", "remote", TRUE,
                   ("menuName" :> ZStr)
                @@ ("name" :> ZStr)
                @@ ("displayName" :> ZStr)
                @@ ("url" :> Opt(ZStr))
                @@ ("icon" :> Opt(ZStr))
                @@ ("order" :> Opt(ZNum))
                @@ ("requiredPermissionName" :> Opt(ZStr))
                @@ ("target" :> Opt(ZStr))
                @@ ("parentName" :> Opt(ZStr)),
                "addMenuItem", {"success", "data", "message"})),
      "abp_remove_menu_item" :> Handler("abp_remove_menu_item",
        "Remove a menu item from a menu",
        InputSchema(
                   ("menuName" :> JStr)
                @@ ("itemName" :> JStr),
                {"menuName", "itemName"}),
        Closure("uiTools", "remote", TRUE,
                   ("menuName" :> ZStr)
                @@ ("itemName" :> ZStr),
                "removeMenuItem", {"success", "message"})),
      "abp_get_widgets" :> Handler("abp_get_widgets",
        "Get all dashboard widgets",
        InputSchema(
                   NoProperties,
                {}),
        Closure("uiTools", "remote", FALSE,
                   NoFields,
                "getWidgets", {"success", "data", "count"})),
      "abp_get_widget" :> Handler("abp_get_widget",
        "Get a specific widget by name",
        InputSchema(
                   ("name" :> JStr),
                {"name"}),
        Closure("uiTools", "remote", TRUE,
                   ("name" :> ZStr),
                "getWidget", {"success", "data"})),
      "abp_create_widget" :> Handler("abp_create_widget",
        "Create a new dashboard widget",
        InputSchema(
                   ("name" :> JStr)
                @@ ("displayName" :> JStr)
                @@ ("description" :> JStr)
                @@ ("type" :> JEnum({"chart", "table", "card", "custom"}))
                @@ ("configuration" :> JObj)
                @@ ("permissions" :> JArr)
                @@ ("refreshInterval" :> JNum),
                {"name", "displayName", "type"}),
        Closure("uiTools", "remote", TRUE,
                   ("name" :> ZStr)
                @@ ("displayName" :> ZStr)
                @@ ("description" :> Opt(ZStr))
                @@ ("type" :> ZEnum({"chart", "table", "card", "custom"}))
                @@ ("configuration" :> ZAny)
                @@ ("permissions" :> Opt(ZArr))
                @@ ("refreshInterval" :> Opt(ZNum)),
                "createWidget", {"success", "data", "message"})),
      "abp_update_widget" :> Handler("abp_update_widget",
        "Update an existing widget",
        InputSchema(
                   ("name" :> JStr)
                @@ ("displayName" :> JStr)
                @@ ("description" :> JStr)
                @@ ("configuration" :> JObj)
                @@ ("permissions" :> JArr)
                @@ ("refreshInterval" :> JNum),
                {"name"}),
        Closure("uiTools", "remote", TRUE,
                   ("name" :> ZStr)
                @@ ("displayName" :> Opt(ZStr))
                @@ ("description" :> Opt(ZStr))
                @@ ("configuration" :> ZAny)
                @@ ("permissions" :> Opt(ZArr))
                @@ ("refreshInterval" :> Opt(ZNum)),
                "updateWidget", {"success", "data", "message"})),
      "abp_delete_widget" :> Handler("abp_delete_widget",
        "Delete a widget",
        InputSchema(
                   ("name" :> JStr),
                {"name"}),
        Closure("uiTools", "remote", TRUE,
                   ("name" :> ZStr),
                "deleteWidget", {"success", "message"})),
      "abp_generate_form" :> Handler("abp_generate_form",
        "Generate complex forms with validation",
        InputSchema(
                   ("name" :> JStr)
                @@ ("entityId" :> JStr)
                @@ ("fields" :> JArr)
                @@ ("layout" :> JEnum({"horizontal", "vertical", "inline"}))
                @@ ("submitAction" :> JStr)
                @@ ("cancelAction" :> JStr),
                {"name", "fields"}),
        Closure("uiTools", "remote", TRUE,
                   ("name" :> ZStr)
                @@ ("entityId" :> Opt(ZStr))
                @@ ("fields" :> ZArr)
                @@ ("layout" :> Dflt(ZEnum({"horizontal", "vertical", "inline"}), JsString("vertical")))
                @@ ("submitAction" :> Opt(ZStr))
                @@ ("cancelAction" :> Opt(ZStr)),
                "generateForm", {"success", "data", "message"})),
      "abp_get_localization_resources" :> Handler("abp_get_localization_resources",
        "Get all localization resources",
        InputSchema(
                   NoProperties,
                {}),
        Closure("uiTools", "remote", FALSE,
                   NoFields,
                "getLocalizationResources", {"success", "data", "count"})),
      "abp_get_localization_resource" :> Handler("abp_get_localization_resource",
        "Get a specific localization resource, optionally for a specific culture",
        InputSchema(
                   ("name" :> JStr)
                @@ ("culture" :> JStr),
                {"name"}),
        Closure("uiTools", "remote", TRUE,
                   ("name" :> ZStr)
                @@ ("culture" :> Opt(ZStr)),
                "getLocalizationResource", {"success", "data"})),
      "abp_update_localization_text" :> Handler("abp_update_localization_text",
        "Update or add localization text for a specific key and culture",
        InputSchema(
                   ("resourceName" :> JStr)
                @@ ("culture" :> JStr)
                @@ ("key" :> JStr)
                @@ ("value" :> JStr),
                {"resourceName", "culture", "key", "value"}),
        Closure("uiTools", "remote", TRUE,
                   ("resourceName" :> ZStr)
                @@ ("culture" :> ZStr)
                @@ ("key" :> ZStr)
                @@ ("value" :> ZStr),
                "updateLocalizationText", {"success", "data", "message"})),
      "abp_get_supported_cultures" :> Handler("abp_get_supported_cultures",
        "Get all supported cultures/languages",
        InputSchema(
                   NoProperties,
                {}),
        Closure("uiTools", "remote", FALSE,
                   NoFields,
                "getSupportedCultures", {"success", "data", "count"}))
    })

\* hybridUiTools (src/src/tools/hybrid-ui-tools.ts)
hybridUiTools ==
    Table({
      "abp_generate_component" :> Handler("abp_generate_component",
        "Generate reusable UI components (widgets, modals, partials, directives, pipes) - Works in info-only mode with static templates",
        InputSchema(
                   ("name" :> JStr)
                @@ ("type" :> JEnum({"widget", "modal", "partial", "directive", "pipe"}))
                @@ ("framework" :> JEnum({"mvc", "angular", "blazor", "blazor-server"}))
                @@ ("properties" :> JArr)
                @@ ("template" :> JStr),
                {"name", "type", "framework"}),
        Closure("hybridUiTools", "hybrid", TRUE,
                   ("name" :> ZStr)
                @@ ("type" :> ZEnum({"widget", "modal", "partial", "directive", "pipe"}))
                @@ ("framework" :> ZEnum({"mvc", "angular", "blazor", "blazor-server"}))
                @@ ("properties" :> Opt(ZArr))
                @@ ("template" :> Opt(ZStr)),
                "generateComponent", {})),
      "abp_get_themes" :> Handler("abp_get_themes",
        "Get available ABP themes - Works in info-only mode with theme information",
        InputSchema(
                   NoProperties,
                {}),
        Closure("hybridUiTools", "hybrid", FALSE,
                   NoFields,
                "getThemes", {})),
      "abp_generate_form" :> Handler("abp_generate_form",
        "Generate complex forms with validation - Works in info-only mode with static templates",
        InputSchema(
                   ("name" :> JStr)
                @@ ("fields" :> JArr)
                @@ ("layout" :> JEnum({"horizontal", "vertical", "inline"}))
                @@ ("submitAction" :> JStr)
                @@ ("cancelAction" :> JStr)
                @@ ("entityId" :> JStr),
                {"name", "fields"}),
        Closure("hybridUiTools", "hybrid", TRUE,
                   ("name" :> ZStr)
                @@ ("fields" :> ZArr)
                @@ ("layout" :> Dflt(ZEnum({"horizontal", "vertical", "inline"}), JsString("vertical")))
                @@ ("submitAction" :> Opt(ZStr))
                @@ ("cancelAction" :> Opt(ZStr))
                @@ ("entityId" :> Opt(ZStr)),
                "generateForm", {})),
      "abp_get_ui_examples" :> Handler("abp_get_ui_examples",
        "Get UI code examples and snippets for different frameworks",
        InputSchema(
                   ("framework" :> JEnum({"mvc", "angular", "blazor", "blazor-server", "all"}))
                @@ ("category" :> JEnum({"forms", "tables", "modals", "widgets", "navigation", "all"})),
                {}),
        Closure("hybridUiTools", "static", TRUE,
                   ("framework" :> Dflt(ZEnum({"mvc", "angular", "blazor", "blazor-server", "all"}), JsString("all")))
                @@ ("category" :> Dflt(ZEnum({"forms", "tables", "modals", "widgets", "navigation", "all"}), JsString("all"))),
                "", {}))
    })

\* infoTools (src/src/tools/info-tools.ts)
infoTools ==
    Table({
      "abp_get_info" :> Handler("abp_get_info",
        "Get general information about the ABP Framework and its capabilities",
        InputSchema(
                   NoProperties,
                {}),
        Closure("infoTools", "static", FALSE,
                   NoFields,
                "", {"framework", "version", "description", "website", "documentation", "github", "keyFeatures", "architecturePatterns", "supportedDatabases"})),
      "abp_get_documentation" :> Handler("abp_get_documentation",
        "Get links to official ABP documentation and learning resources",
        InputSchema(
                   ("category" :> JEnum({"getting-started", "tutorials", "framework", "ui", "modules", "deployment", "all"})),
                {}),
        Closure("infoTools", "static", TRUE,
                   ("category" :> Dflt(ZEnum({"getting-started", "tutorials", "framework", "ui", "modules", "deployment", "all"}), JsString("all"))),
                "", {"message", "links"})),
      "abp_get_help" :> Handler("abp_get_help",
        "Get help and usage information for the ABP MCP Server",
        InputSchema(
                   ("topic" :> JEnum({"setup", "authentication", "tools", "examples", "troubleshooting"})),
                {}),
        Closure("infoTools", "static", TRUE,
                   ("topic" :> Opt(ZEnum({"setup", "authentication", "tools", "examples", "troubleshooting"}))),
                "", {"title", "description", "availableTopics", "quickStart", "documentation", "support"})),
      "abp_list_available_modules" :> Handler("abp_list_available_modules",
        "List all available ABP modules with descriptions and categories",
        InputSchema(
                   ("category" :> JEnum({"identity", "cms", "commerce", "communication", "productivity", "integration", "all"})),
                {}),
        Closure("infoTools", "static", TRUE,
                   ("category" :> Dflt(ZEnum({"identity", "cms", "commerce", "communication", "productivity", "integration", "all"}), JsString("all"))),
                "", {"message", "modules", "installationNote"})),
      "abp_list_ui_frameworks" :> Handler("abp_list_ui_frameworks",
        "List supported UI frameworks and their capabilities",
        InputSchema(
                   NoProperties,
                {}),
        Closure("infoTools", "static", FALSE,
                   NoFields,
                "", {"message", "frameworks", "themes", "selectionGuide"})),
      "abp_list_database_providers" :> Handler("abp_list_database_providers",
        "List supported database providers and their configurations",
        InputSchema(
                   NoProperties,
                {}),
        Closure("infoTools", "static", FALSE,
                   NoFields,
                "", {"message", "providers", "databaseSpecifics", "migrationGuide"})),
      "abp_get_cli_commands" :> Handler("abp_get_cli_commands",
        "Get information about ABP CLI commands and usage",
        InputSchema(
                   ("command" :> JEnum({"new", "add-package", "add-module", "generate-proxy", "remove-package", "update", "all"})),
                {}),
        Closure("infoTools", "static", TRUE,
                   ("command" :> Dflt(ZEnum({"new", "add-package", "add-module", "generate-proxy", "remove-package", "update", "all"}), JsString("all"))),
                "", {"command"})),
      "abp_get_best_practices" :> Handler("abp_get_best_practices",
        "Get ABP development best practices and guidelines",
        InputSchema(
                   ("category" :> JEnum({"architecture", "performance", "security", "testing", "deployment", "all"})),
                {}),
        Closure("infoTools", "static", TRUE,
                   ("category" :> Dflt(ZEnum({"architecture", "performance", "security", "testing", "deployment", "all"}), JsString("all"))),
                "", {"message", "categories", "additionalResources"})),
      "abp_get_troubleshooting_guide" :> Handler("abp_get_troubleshooting_guide",
        "Get troubleshooting guide for common ABP issues",
        InputSchema(
                   ("issue" :> JEnum({"startup", "database", "authentication", "modules", "ui", "deployment", "all"})),
                {}),
        Closure("infoTools", "static", TRUE,
                   ("issue" :> Dflt(ZEnum({"startup", "database", "authentication", "modules", "ui", "deployment", "all"}), JsString("all"))),
                "", {"message", "categories", "generalTips", "supportResources"}))
    })

-----------------------------------------------------------------------------
(* The registry and the info-only filter *)

\* { ...a, ...b }: the properties of b override those of a
\* a merge in which the first definition of a name stays
SpreadKeepsFirst(a, b) == a @@ b

\* { ...a, ...b }: the properties of a, then those of b over them
Spread(a, b) == b @@ a

abpTools ==
    Spread(Spread(Spread(Spread(Spread(Spread(Spread(Spread(
        applicationTools,
        moduleTools),
        entityTools),
        userTools),
        tenantTools),
        permissionTools),
        auditTools),
        backgroundJobTools),
        uiTools)

\* a registry construction that spreads hybridUiTools after the nine
ContributingGroupsWithHybrid ==
    <<applicationTools, moduleTools, entityTools, userTools, tenantTools,
      permissionTools, auditTools, backgroundJobTools, uiTools, hybridUiTools>>

\* the groups abpTools spreads, in the order of the spreads
ContributingGroups ==
    <<applicationTools, moduleTools, entityTools, userTools, tenantTools,
      permissionTools, auditTools, backgroundJobTools, uiTools>>

infoOnlyToolNames ==
    {"abp_get_info", "abp_get_documentation", "abp_get_help",
     "abp_list_available_modules", "abp_list_ui_frameworks",
     "abp_list_database_providers", "abp_get_cli_commands",
     "abp_get_best_practices", "abp_get_troubleshooting_guide",
     "abp_generate_component", "abp_get_themes", "abp_generate_form",
     "abp_get_ui_examples"}

\* a callback that takes abp_get_users for allow-listed as well
FilterEntryKeepsUsers(heap, name, handler) ==
    IF name \in infoOnlyToolNames \cup {"abp_get_users"}
    THEN [heap EXCEPT !.infoOnlyTools = (name :> handler) @@ heap.infoOnlyTools]
    ELSE heap

\* One turn of the forEach callback of filterInfoOnlyTools on the entry
\* [name, handler]; heap holds the two objects the function works on
FilterEntry(heap, name, handler) ==
    IF name \in infoOnlyToolNames
    THEN [heap EXCEPT !.infoOnlyTools = (name :> handler) @@ heap.infoOnlyTools]
    ELSE heap

\* Object.entries(allTools).forEach(...), over the entries still to visit;
\* an empty allTools has no entry to visit
RECURSIVE FilterLoop(_, _, _)
FilterLoop(heap, entries, names) ==
    IF names = {} \/ DOMAIN heap.allTools = {} THEN heap
    ELSE LET name == CHOOSE n \in names : TRUE
         IN  FilterLoop(FilterEntry(heap, name, entries[name]), entries,
                        names \ {name})

\* a filter that walks the allow-list and copies allTools[name] for each name
FilterHeapByAllowList(allTools) ==
    [allTools |-> allTools,
     infoOnlyTools |-> [n \in infoOnlyToolNames |-> Get(allTools, n)]]

\* The two objects after filterInfoOnlyTools(allTools) has run
FilterHeap(allTools) ==
    FilterLoop([allTools |-> allTools, infoOnlyTools |-> EmptyObject],
               allTools, DOMAIN allTools)

filterInfoOnlyTools(allTools) == FilterHeap(allTools).infoOnlyTools

\* Property names every object literal inherits from Object.prototype
ObjectPrototypeKeys ==
    {"constructor", "toString", "toLocaleString", "valueOf", "hasOwnProperty",
     "isPrototypeOf", "propertyIsEnumerable", "__proto__"}

\* table[name] in JavaScript: the own property, else the one inherited from
\* Object.prototype (a function or object without an execute property),
\* else undefined
PropertyLookup(table, name) ==
    IF name \in DOMAIN table THEN table[name]
    ELSE IF name \in ObjectPrototypeKeys THEN [inherited |-> name]
    ELSE Undefined

-----------------------------------------------------------------------------
(* AbpApiClient *)

\* new AbpApiClient({ baseUrl, apiKey })
AbpApiClient(config) == [config |-> config]

\* a null reference in place of the client
NullClient == [null |-> TRUE]

\* What the remote does with one HTTP request: a 2xx answer, or a failure
\* (no answer, or a status outside 2xx), for which axios rejects with an
\* error of this message
RemoteFailures == {"Network Error", "Request failed with status code 401"}
RemoteOutcomes == {"ok"} \cup RemoteFailures

\* The body of a 2xx answer to the request of client method op
RemoteData(op) == [remote |-> op]

\* a client method that sends a failed request a second time
ClientCallRetries(op, remote) ==
    IF remote = "ok"
    THEN [rejected |-> FALSE, data |-> RemoteData(op), message |-> "", calls |-> 1]
    ELSE [rejected |-> TRUE, data |-> RemoteData(op), message |-> remote, calls |-> 2]

\* await apiClient.<op>(...): exactly one HTTP request; resolves with the
\* body of the answer or rejects with the error of the failed request
ClientCall(op, remote) ==
    IF remote = "ok"
    THEN [rejected |-> FALSE, data |-> RemoteData(op), message |-> "", calls |-> 1]
    ELSE [rejected |-> TRUE, data |-> RemoteData(op), message |-> remote, calls |-> 1]

-----------------------------------------------------------------------------
(* Static generators of hybrid-ui-tools.ts *)

\* The text a template generator builds from the arguments it reads: a
\* function of the generator and of those arguments, nothing else
Template(generator, args) == [generator |-> generator, from |-> args]

generateStaticComponent(args) ==
    LET templates ==
            [angular |-> Template("generateAngularComponent", args),
             blazor |-> Template("generateBlazorComponent", args),
             mvc |-> Template("generateMvcComponent", args)]
                @@ ("blazor-server" :> Template("generateBlazorComponent", args))
    IN  [success |-> TRUE,
         data |-> [name |-> args.name,
                   type |-> args.type,
                   framework |-> args.framework,
                   code |-> templates[args.framework.v],
                   properties |-> IF "properties" \in DOMAIN args
                                  THEN args.properties
                                  ELSE [t |-> "array", v |-> "[]"]],
         message |-> "Static " \o args.type.v
                        \o " component template generated for "
                        \o args.framework.v,
         mode |-> "static",
         usage |-> "Copy this code to your project and customize as needed"]

generateStaticForm(args) ==
    LET templates ==
            [angular |-> Template("generateAngularForm", args),
             blazor |-> Template("generateBlazorForm", args),
             mvc |-> Template("generateMvcForm", args)]
                @@ ("blazor-server" :> Template("generateBlazorForm", args))
    IN  [success |-> TRUE,
         data |-> [name |-> args.name,
                   fields |-> args.fields,
                   layout |-> args.layout,
                   code |-> templates.angular],
         message |-> "Static form template generated for " \o args.name.v,
         mode |-> "static",
         usage |-> "Copy this code to your project and customize as needed"]

getStaticThemeInfo ==
    [success |-> TRUE,
     data |-> [availableThemes |-> <<"LeptonX", "Basic">>,
               customization |-> {"colors", "variables"}],
     message |-> "Static theme information (use API for applying themes to actual applications)",
     mode |-> "static"]

getUiExamples(framework, category) ==
    LET examples == {"forms", "tables", "modals"}
    IN  IF category = "all"
        THEN [success |-> TRUE,
              data |-> [framework |-> framework,
                        categories |-> examples,
                        totalExamples |-> 4],
              message |-> "UI examples for " \o framework \o " framework",
              mode |-> "static"]
        ELSE [success |-> TRUE,
              data |-> [framework |-> framework,
                        category |-> category,
                        examples |-> IF category \in examples
                                     THEN category
                                     ELSE "No examples found"],
              message |-> category \o " examples for " \o framework
                             \o " framework",
              mode |-> "static"]

\* a test that takes only a missing client for info-only mode
isInfoOnlyModeNullOnly(apiClient) == apiClient = NullClient

\* !apiClient || !apiClient.config?.apiKey
isInfoOnlyMode(apiClient) ==
    \/ apiClient = NullClient
    \/ "apiKey" \notin DOMAIN apiClient.config
    \/ apiClient.config.apiKey = ""

-----------------------------------------------------------------------------
(* Running handler.execute(args) *)

\* How an execute call ends: it returns result, or it throws an error of the
\* given message; calls counts the HTTP requests it issued on the way
Returned(result, calls) ==
    [threw |-> FALSE, result |-> result, error |-> "", calls |-> calls]
Threw(message, calls) ==
    [threw |-> TRUE, result |-> EmptyObject, error |-> message, calls |-> calls]

\* The object a non-hybrid execute returns: success: true, data: the answer
\* of the client, and keys computed from the answer and from the arguments
Envelope(returns, data) ==
    [f \in returns |->
        IF f = "success" THEN TRUE
        ELSE IF f = "data" THEN data
        ELSE [computed |-> f]]

\* an execute that answers with an empty envelope when the request fails
ExecuteRemoteSwallows(closure, args, remote) ==
    IF closure.validates /\ ZodIssues(closure.zod, args) # {}
    THEN Threw(ZodErrorMessage, 0)
    ELSE LET call == ClientCall(closure.op, remote)
         IN  Returned(Envelope(closure.returns, call.data), call.calls)

\* execute of a tool that forwards to one client method
ExecuteRemote(closure, args, remote) ==
    IF closure.validates /\ ZodIssues(closure.zod, args) # {}
    THEN Threw(ZodErrorMessage, 0)
    ELSE LET call == ClientCall(closure.op, remote)
         IN  IF call.rejected
             THEN Threw(call.message, call.calls)
             ELSE Returned(Envelope(closure.returns, call.data), call.calls)

\* The instants new Date() may return
Instants == 0..MaxClock

\* execute of abp_get_audit_summary: the period runs from days before the
\* instant of the call to that instant; both ends go to the client and,
\* as ISO strings, into the result
ExecuteAuditSummary(closure, args, remote, now) ==
    IF ZodIssues(closure.zod, args) # {}
    THEN Threw(ZodErrorMessage, 0)
    ELSE LET days == ZodOutput(closure.zod, args).days
             endDate == [iso |-> now, minusDays |-> "0"]
             startDate == [iso |-> now, minusDays |-> days.v]
             call == ClientCall(closure.op, remote)
         IN  IF call.rejected
             THEN Threw(call.message, call.calls)
             ELSE Returned(
                    [success |-> TRUE,
                     data |-> [period |-> [days |-> days,
                                           startDate |-> startDate,
                                           endDate |-> endDate],
                               summary |-> [computed |-> "summary", from |-> call.data],
                               topServices |-> [computed |-> "topServices",
                                                from |-> call.data],
                               recentErrors |-> [computed |-> "recentErrors",
                                                 from |-> call.data]]],
                    call.calls)

\* execute of a tool that returns a literal
ExecuteStatic(name, closure, args) ==
    IF closure.validates /\ ZodIssues(closure.zod, args) # {}
    THEN Threw(ZodErrorMessage, 0)
    ELSE IF name = "abp_get_ui_examples"
    THEN LET parsed == ZodOutput(closure.zod, args)
         IN  Returned(getUiExamples(parsed.framework.v, parsed.category.v), 0)
    ELSE Returned(Envelope(closure.returns, [literal |-> name]), 0)

\* The three parts in which the hybrid tools differ: the static generator,
\* the object returned after a successful API call, the warning of the
\* fallback
HybridStatic(name, validatedArgs) ==
    CASE name = "abp_generate_component" -> generateStaticComponent(validatedArgs)
      [] name = "abp_generate_form" -> generateStaticForm(validatedArgs)
      [] name = "abp_get_themes" -> getStaticThemeInfo

\* an API branch that labels its result as a static one
HybridApiResultLabelledStatic(name, data) ==
    [success |-> TRUE, data |-> data, message |-> [computed |-> "message"],
     mode |-> "static"]

HybridApiResult(name, data) ==
    CASE name = "abp_get_themes" ->
            [success |-> TRUE, data |-> data, count |-> [computed |-> "count"],
             mode |-> "api"]
      [] OTHER ->
            [success |-> TRUE, data |-> data,
             message |-> [computed |-> "message"], mode |-> "api"]

HybridWarning(name) ==
    IF name = "abp_get_themes"
    THEN "API call failed, showing static theme information instead"
    ELSE "API call failed, generated static template instead"

\* a fallback that lets the error of the failed call through
HybridFallbackRethrows(name, validatedArgs, call) ==
    Threw(call.message, call.calls)

\* The catch block of a hybrid execute: the static result with a warning
\* attached ({ ...staticResult, warning })
HybridFallback(name, validatedArgs, call) ==
    Returned(Spread(HybridStatic(name, validatedArgs),
                    [warning |-> HybridWarning(name)]),
             call.calls)

\* a hybrid execute that attaches the warning to every static result
ExecuteHybridAlwaysWarns(name, closure, args, apiClient, remote) ==
    IF closure.validates /\ ZodIssues(closure.zod, args) # {}
    THEN Threw(ZodErrorMessage, 0)
    ELSE LET validatedArgs == IF closure.validates
                              THEN ZodOutput(closure.zod, args)
                              ELSE args
             call == ClientCall(closure.op, remote)
         IN  IF isInfoOnlyMode(apiClient)
             THEN Returned(Spread(HybridStatic(name, validatedArgs),
                                  [warning |-> HybridWarning(name)]), 0)
             ELSE IF call.rejected
             THEN HybridFallback(name, validatedArgs, call)
             ELSE Returned(HybridApiResult(name, call.data), call.calls)

\* a hybrid execute that, over a client with an API key, sends the arguments
\* to the API before it parses them
ExecuteHybridCallsBeforeParse(name, closure, args, apiClient, remote) ==
    LET call == ClientCall(closure.op, remote)
        sent == IF isInfoOnlyMode(apiClient) THEN 0 ELSE call.calls
    IN  IF closure.validates /\ ZodIssues(closure.zod, args) # {}
        THEN Threw(ZodErrorMessage, sent)
        ELSE LET validatedArgs == IF closure.validates
                                  THEN ZodOutput(closure.zod, args)
                                  ELSE args
             IN  IF isInfoOnlyMode(apiClient)
                 THEN Returned(HybridStatic(name, validatedArgs), 0)
                 ELSE IF call.rejected
                 THEN HybridFallback(name, validatedArgs, call)
                 ELSE Returned(HybridApiResult(name, call.data), call.calls)

\* execute of abp_generate_component, abp_get_themes, abp_generate_form of
\* hybridUiTools
ExecuteHybrid(name, closure, args, apiClient, remote) ==
    IF closure.validates /\ ZodIssues(closure.zod, args) # {}
    THEN Threw(ZodErrorMessage, 0)
    ELSE LET validatedArgs == IF closure.validates
                              THEN ZodOutput(closure.zod, args)
                              ELSE args
         IN  IF isInfoOnlyMode(apiClient)
             THEN Returned(HybridStatic(name, validatedArgs), 0)
             ELSE LET call == ClientCall(closure.op, remote)
                  IN  IF call.rejected
                      THEN HybridFallback(name, validatedArgs, call)
                      ELSE Returned(HybridApiResult(name, call.data), call.calls)

\* await handler.execute(args), with the client the closure captured
Execute(handler, args, apiClient, remote, now) ==
    LET closure == handler.execute
    IN  CASE handler.name = "abp_get_audit_summary" ->
                ExecuteAuditSummary(closure, args, remote, now)
          [] closure.kind = "remote" -> ExecuteRemote(closure, args, remote)
          [] closure.kind = "static" -> ExecuteStatic(handler.name, closure, args)
          [] closure.kind = "hybrid" ->
                ExecuteHybrid(handler.name, closure, args, apiClient, remote)

-----------------------------------------------------------------------------
(* The arguments a client may send with a call *)

\* a value that conforms to a declared property
ValidValue(p) ==
    CASE p.enum # {} -> JsString(CHOOSE e \in p.enum : TRUE)
      [] p.type = "number" -> JsNumber
      [] p.type = "boolean" -> JsBoolean
      [] p.type = "array" -> JsArray
      [] p.type = "object" -> JsObject
      [] OTHER -> JsString("text")

\* values tried in place of a valid one: another type, a string outside
\* every enum, an array with a non-conforming element
OtherValues(p) ==
    {IF p.type = "number" THEN JsString("text") ELSE JsNumber,
     JsString("zzz")}
        \cup (IF p.type = "array" THEN {JsBadArray} ELSE {})

\* every declared parameter, each with a valid value
FullArgs(schema) ==
    [f \in DOMAIN schema.properties |-> ValidValue(schema.properties[f])]

\* the required parameters only
MinArgs(schema) ==
    [f \in schema.required |-> ValidValue(schema.properties[f])]

\* The argument objects tried for a tool: the full and the minimal valid
\* object, and the full one with one parameter dropped or replaced
ArgsFor(schema) ==
    {FullArgs(schema), MinArgs(schema)}
        \cup {Rest(FullArgs(schema), f) : f \in DOMAIN schema.properties}
        \cup UNION {{[FullArgs(schema) EXCEPT ![f] = v] :
                        v \in OtherValues(schema.properties[f])} :
                    f \in DOMAIN schema.properties}

\* ArgsFor, and every member of every enum in place of the first
ArgsWithEnums(schema) ==
    ArgsFor(schema)
        \cup UNION {{[FullArgs(schema) EXCEPT ![f] = JsString(e)] :
                        e \in schema.properties[f].enum} :
                    f \in DOMAIN schema.properties}

\* Names a client may call that abpTools does not register: a name no module
\* defines, names only infoTools and hybridUiTools define, and names every
\* object inherits
UnregisteredNames ==
    {"abp_does_not_exist", "abp_get_info", "abp_get_ui_examples",
     "constructor", "__proto__"}

ToolNames == DOMAIN abpTools \cup UnregisteredNames

\* request.params of a call-tool request for name; `arguments` is optional
CallParams(name) ==
    IF name \in DOMAIN abpTools
    THEN {[name |-> name, arguments |-> a] :
            a \in ArgsFor(abpTools[name].inputSchema)}
            \cup {[name |-> name]}
    ELSE {[name |-> name, arguments |-> EmptyObject]}

-----------------------------------------------------------------------------
(* The request handlers of main() *)

\* exitCode of a process that has not exited
NoExit == -1

\* a client that is given no API key when --info-only-mode is set
apiClientWithoutKeyInInfoOnlyMode ==
    AbpApiClient([baseUrl |-> "http://localhost:44300",
                  apiKey |-> IF options.infoOnlyMode THEN "" ELSE options.apiKey])

\* the client main() builds: apiKey: options.apiKey || ''
apiClient ==
    AbpApiClient([baseUrl |-> "http://localhost:44300", apiKey |-> options.apiKey])

\* What serving a request did besides answering: HTTP requests issued (and
\* what the remote did with them), whether the execute function of a tool
\* ran, and the status the handler passed to process.exit (NoExit: it did
\* not call it)
Effects(calls, executed) ==
    [calls |-> calls, executed |-> executed, exit |-> NoExit,
     remote |-> "not called"]

\* A handler that returns: the result goes back as the answer
Answer(result, calls, executed) ==
    [response |-> [kind |-> "result", result |-> result],
     effects |-> Effects(calls, executed)]

\* A handler that throws: the SDK answers with a JSON-RPC error carrying the
\* message
Thrown(message) ==
    [response |-> [kind |-> "error", message |-> message],
     effects |-> Effects(0, FALSE)]

\* { content: [{ type: 'text', text }], isError: true }
ErrorResult(text) == [content |-> <<[type |-> "text", text |-> text]>>, isError |-> TRUE]

\* { content: [{ type: 'text', text: JSON.stringify(result, null, 2) }] }
TextResult(result) ==
    [content |-> <<[type |-> "text", text |-> [json |-> result]]>>]

ApiKeyRequiredText ==
    "Error: ABP.IO API key is required. Please configure --api-key parameter or use --info-only-mode for informational tools only."

\* a branch that reports the missing credential and exits with status 1
MissingApiKeyExits ==
    [response |-> [kind |-> "result", result |-> ErrorResult(ApiKeyRequiredText)],
     effects |-> [Effects(0, FALSE) EXCEPT !.exit = 1]]

\* The answer of the branch that finds no credential outside info-only mode
MissingApiKey == Answer(ErrorResult(ApiKeyRequiredText), 0, FALSE)

\* try { result = await handler.execute(args || {}) ... } catch (error) {...}
TryExecute(handler, args, client, remote, now) ==
    IF "execute" \notin DOMAIN handler
    THEN \* TypeError, raised inside the try block
         Answer(ErrorResult("Error: handler.execute is not a function"), 0, FALSE)
    ELSE LET out == Execute(handler, args, client, remote, now)
         IN  IF out.threw
             THEN Answer(ErrorResult("Error: " \o out.error), out.calls, TRUE)
             ELSE Answer(TextResult(out.result), out.calls, TRUE)

\* a handler without the credential check
CallToolHandlerNoCredentialCheck(handlers, opts, client, params, remote, now) ==
    LET name == params.name
        args == IF "arguments" \in DOMAIN params THEN params.arguments
                ELSE EmptyObject
        handler == PropertyLookup(handlers, name)
    IN  IF handler = Undefined
        THEN Thrown("Unknown tool: " \o name)
        ELSE TryExecute(handler, args, client, remote, now)

\* The CallToolRequestSchema handler on request.params = params, over the
\* table handlers, with the remote answering remote to a request it gets
\* and the clock showing now
CallToolHandler(handlers, opts, client, params, remote, now) ==
    LET name == params.name
        args == IF "arguments" \in DOMAIN params THEN params.arguments
                ELSE EmptyObject
        handler == PropertyLookup(handlers, name)
    IN  IF handler = Undefined
        THEN Thrown("Unknown tool: " \o name)
        ELSE IF ~opts.infoOnlyMode /\ opts.apiKey = ""
        THEN MissingApiKey
        ELSE TryExecute(handler, args, client, remote, now)

\* a listing of everything abpTools registers, whatever the table holds
ListToolsHandlerAllTools(handlers) ==
    Answer([tools |-> {[name |-> abpTools[n].name,
                        description |-> abpTools[n].description,
                        inputSchema |-> abpTools[n].inputSchema] :
                       n \in DOMAIN abpTools}],
           0, FALSE)

\* The ListToolsRequestSchema handler
ListToolsHandler(handlers) ==
    Answer([tools |-> {[name |-> handlers[n].name,
                        description |-> handlers[n].description,
                        inputSchema |-> handlers[n].inputSchema] :
                       n \in DOMAIN handlers}],
           0, FALSE)

-----------------------------------------------------------------------------
(* The process: main(), the transport, the signal handlers *)

\* The command lines: --api-key given or not, --info-only-mode, --stdio
OptionSets ==
    [apiKey : {"", "secret-key"}, infoOnlyMode : BOOLEAN, stdio : BOOLEAN]

\* no list-tools request answered yet
NoListing == [none |-> TRUE]
NoListings ==
    [previous |-> NoListing, last |-> NoListing, between |-> FALSE,
     since |-> FALSE]

NoRequest == [method |-> "none"]
NoResponse == [kind |-> "none"]

\* main() has written nothing to stderr and has issued no connection test
NotStarted == [log |-> <<>>, test |-> "not issued"]

\* What main() writes to stderr once the transport is attached, and whether
\* it goes on to issue the connection test
Started(testing) ==
    [log |-> IF options.infoOnlyMode
             THEN <<"ABP.IO MCP Server running in INFO-ONLY mode (no API authentication required)",
                    "Available tools: informational tools">>
             ELSE IF options.apiKey # ""
             THEN <<"ABP.IO MCP Server running on stdio">>
             ELSE <<"ABP.IO MCP Server running on stdio",
                    "Warning: No API key provided. Tools are available but will require --api-key to execute.",
                    "Use --info-only-mode to access informational tools without authentication.">>,
     test |-> IF testing THEN "in flight" ELSE "not issued"]

\* What main() writes when the connection test has settled
TestLines(call) ==
    IF call.rejected
    THEN <<"Warning: Could not connect to ABP API",
           "Tools are available but will require valid API connection to execute.">>
    ELSE <<"Connected to ABP API">>

\* main() after the connection test has settled: the outcome is logged and
\* the error of a failed test is dropped
Tested(call) ==
    [log |-> startup.log \o TestLines(call),
     test |-> IF call.rejected THEN "failed" ELSE "ok"]

\* a startup that hides the API tools whenever no API key is given
InitHidesToolsWithoutKey ==
    /\ options \in OptionSets
    /\ pc = "start"
    /\ connected = FALSE
    /\ exitCode = NoExit
    /\ toolHandlers = IF options.infoOnlyMode \/ options.apiKey = ""
                      THEN filterInfoOnlyTools(abpTools)
                      ELSE abpTools
    /\ request = NoRequest
    /\ response = NoResponse
    /\ effects = Effects(0, FALSE)
    /\ registry = EmptyObject
    /\ filtered = EmptyObject
    /\ listings = NoListings
    /\ startup = NotStarted

\* The state when main() has registered both handlers and stands before
\* `if (options.stdio)`
Init ==
    /\ options \in OptionSets
    /\ pc = "start"
    /\ connected = FALSE
    /\ exitCode = NoExit
    /\ toolHandlers = IF options.infoOnlyMode
                      THEN filterInfoOnlyTools(abpTools)
                      ELSE abpTools
    /\ request = NoRequest
    /\ response = NoResponse
    /\ effects = Effects(0, FALSE)
    /\ registry = EmptyObject
    /\ filtered = EmptyObject
    /\ listings = NoListings
    /\ startup = NotStarted

\* the transport is attached and the process has not exited
Ready == connected /\ exitCode = NoExit

\* a start that refuses to run without an API key outside info-only mode
ConnectRequiresApiKey ==
    /\ pc = "start" /\ exitCode = NoExit /\ options.stdio
    /\ IF ~options.infoOnlyMode /\ options.apiKey = ""
       THEN /\ connected' = FALSE /\ pc' = "exited" /\ exitCode' = 1
            /\ startup' = startup
       ELSE /\ connected' = TRUE
            /\ pc' = IF ~options.infoOnlyMode THEN "testing" ELSE "done"
            /\ exitCode' = exitCode
            /\ startup' = Started(~options.infoOnlyMode)
    /\ UNCHANGED <<options, toolHandlers, request, response, effects,
                   registry, filtered, listings>>

\* a start that issues the connection test whenever it is not in info-only
\* mode, API key or not
ConnectTestsWithoutKey ==
    /\ pc = "start" /\ exitCode = NoExit /\ options.stdio
    /\ connected' = TRUE
    /\ pc' = IF ~options.infoOnlyMode THEN "testing" ELSE "done"
    /\ startup' = Started(~options.infoOnlyMode)
    /\ UNCHANGED <<options, exitCode, toolHandlers, request, response,
                   effects, registry, filtered, listings>>

\* await server.connect(transport) resolves; outside info-only mode and with
\* an API key, main() goes on to issue the connection test
Connect ==
    /\ pc = "start" /\ exitCode = NoExit /\ options.stdio
    /\ connected' = TRUE
    /\ pc' = IF ~options.infoOnlyMode /\ options.apiKey # ""
             THEN "testing" ELSE "done"
    /\ startup' = Started(~options.infoOnlyMode /\ options.apiKey # "")
    /\ UNCHANGED <<options, exitCode, toolHandlers, request, response,
                   effects, registry, filtered, listings>>

\* a failed attach that ends the process with status 0
ConnectFailsExitsZero ==
    /\ pc = "start" /\ exitCode = NoExit /\ options.stdio
    /\ pc' = "exited"
    /\ exitCode' = 0
    /\ UNCHANGED <<options, connected, toolHandlers, request, response,
                   effects, registry, filtered, listings, startup>>

\* await server.connect(transport) rejects: main() rejects and
\* main().catch exits with status 1
ConnectFails ==
    /\ pc = "start" /\ exitCode = NoExit /\ options.stdio
    /\ pc' = "exited"
    /\ exitCode' = 1
    /\ UNCHANGED <<options, connected, toolHandlers, request, response,
                   effects, registry, filtered, listings, startup>>

\* without --stdio main() prints the usage and exits with status 0
NoTransport ==
    /\ pc = "start" /\ exitCode = NoExit /\ ~options.stdio
    /\ pc' = "exited"
    /\ exitCode' = 0
    /\ UNCHANGED <<options, connected, toolHandlers, request, response,
                   effects, registry, filtered, listings, startup>>

\* a connection test whose failure ends the process with status 1
TestConnectionFailureExits ==
    /\ pc = "testing" /\ exitCode = NoExit
    /\ \E remote \in RemoteOutcomes :
          LET call == ClientCall("testConnection", remote)
          IN  /\ startup' = Tested(call)
              /\ pc' = IF call.rejected THEN "exited" ELSE "done"
              /\ exitCode' = IF call.rejected THEN 1 ELSE exitCode
    /\ UNCHANGED <<options, connected, toolHandlers, request, response,
                   effects, registry, filtered, listings>>

\* await apiClient.testConnection() settles: main() logs the outcome and
\* returns, whichever it is
TestConnection ==
    /\ pc = "testing" /\ exitCode = NoExit
    /\ \E remote \in RemoteOutcomes :
          LET call == ClientCall("testConnection", remote)
          IN  startup' = Tested(call)
    /\ pc' = "done"
    /\ UNCHANGED <<options, connected, exitCode, toolHandlers, request,
                   response, effects, registry, filtered, listings>>

\* process.on('SIGINT'): exit with status 0, in any state
Sigint ==
    /\ exitCode = NoExit
    /\ exitCode' = 0
    /\ pc' = "exited"
    /\ UNCHANGED <<options, connected, toolHandlers, request, response,
                   effects, registry, filtered, listings, startup>>

\* The record of the last two list-tools results: a list-tools request
\* shifts its result in, a call-tool request is noted as having come after
\* the last listing
Listed(seen, req, answer) ==
    IF req.method = "tools/list"
    THEN [previous |-> seen.last, last |-> answer.result,
          between |-> seen.since, since |-> FALSE]
    ELSE [seen EXCEPT !.since = seen.last # NoListing]

\* a server that drops a tool from its table once it has been called
ServeForgetsTool(req, ran, remote) ==
    /\ request' = req
    /\ response' = ran.response
    /\ effects' = [ran.effects EXCEPT
                      !.remote = IF ran.effects.calls > 0 THEN remote ELSE @]
    /\ exitCode' = ran.effects.exit
    /\ pc' = IF ran.effects.exit = NoExit THEN pc ELSE "exited"
    /\ listings' = Listed(listings, req, ran.response)
    /\ toolHandlers' = IF req.method = "tools/call"
                          /\ req.params.name \in DOMAIN toolHandlers
                       THEN Rest(toolHandlers, req.params.name)
                       ELSE toolHandlers
    /\ UNCHANGED <<options, connected, registry, filtered, startup>>

\* The server answers req as the handler decided (ran) and the process goes
\* on, unless the handler called process.exit
Serve(req, ran, remote) ==
    /\ request' = req
    /\ response' = ran.response
    /\ effects' = [ran.effects EXCEPT
                      !.remote = IF ran.effects.calls > 0 THEN remote ELSE @]
    /\ exitCode' = ran.effects.exit
    /\ pc' = IF ran.effects.exit = NoExit THEN pc ELSE "exited"
    /\ listings' = Listed(listings, req, ran.response)
    /\ UNCHANGED <<options, connected, toolHandlers, registry, filtered,
                   startup>>

\* The transport carries one request at a time: the client sends the next
\* one when it has read the answer to the last
Idle == response = NoResponse

\* a list-tools request arrives and is answered
ListTools ==
    /\ Ready /\ Idle
    /\ Serve([method |-> "tools/list"], ListToolsHandler(toolHandlers), "ok")

\* a server that answers calls only to a client that has listed the tools
CallToolAfterListOnly ==
    /\ Ready /\ Idle
    /\ \E name \in ToolNames :
       \E params \in CallParams(name) :
       \E remote \in RemoteOutcomes :
       \E now \in Instants :
          Serve([method |-> "tools/call", params |-> params],
                IF listings.last = NoListing
                THEN Answer(ErrorResult("Error: call tools/list first"), 0, FALSE)
                ELSE CallToolHandler(toolHandlers, options, apiClient, params,
                                     remote, now),
                remote)

\* a call-tool request arrives and is answered
CallTool ==
    /\ Ready /\ Idle
    /\ \E name \in ToolNames :
       \E params \in CallParams(name) :
       \E remote \in RemoteOutcomes :
       \E now \in Instants :
          Serve([method |-> "tools/call", params |-> params],
                CallToolHandler(toolHandlers, options, apiClient, params,
                                remote, now),
                remote)

\* the client reads the answer off the transport
Deliver ==
    /\ exitCode = NoExit /\ ~Idle
    /\ request' = NoRequest
    /\ response' = NoResponse
    /\ effects' = Effects(0, FALSE)
    /\ UNCHANGED <<options, pc, connected, exitCode, toolHandlers, registry,
                   filtered, listings, startup>>

Next ==
    \/ Connect
    \/ ConnectFails
    \/ NoTransport
    \/ TestConnection
    \/ Sigint
    \/ ListTools
    \/ CallTool
    \/ Deliver

Spec == Init /\ [][Next]_vars

-----------------------------------------------------------------------------
(* filterInfoOnlyTools on its own, over registries of every shape *)

\* Names a registry may hold: names of the allow-list and names outside it
RegistryNames ==
    {"abp_get_info", "abp_get_themes", "abp_generate_component",
     "abp_get_ui_examples", "abp_get_users", "abp_create_user"}

\* Entries a registry may hold under any of these names
RegistryEntries ==
    {uiTools["abp_get_themes"], hybridUiTools["abp_get_themes"],
     userTools["abp_get_users"], infoTools["abp_get_info"]}

\* Registries of at most MaxRegistry entries, and the registry of abpTools
Registries ==
    UNION {[names -> RegistryEntries] :
              names \in {N \in SUBSET RegistryNames : Cardinality(N) <= MaxRegistry}}
        \cup {abpTools}

InitFilter ==
    /\ options = [apiKey |-> "", infoOnlyMode |-> TRUE, stdio |-> TRUE]
    /\ pc = "filter"
    /\ connected = FALSE
    /\ exitCode = NoExit
    /\ toolHandlers = EmptyObject
    /\ request = NoRequest
    /\ response = NoResponse
    /\ effects = Effects(0, FALSE)
    /\ registry \in Registries
    /\ filtered = EmptyObject
    /\ listings = NoListings
    /\ startup = NotStarted

\* filtered = filterInfoOnlyTools(registry)
FilterTools ==
    /\ pc = "filter"
    /\ pc' = "filtered"
    /\ registry' = FilterHeap(registry).allTools
    /\ filtered' = FilterHeap(registry).infoOnlyTools
    /\ UNCHANGED <<options, connected, exitCode, toolHandlers, request,
                   response, effects, listings, startup>>

NextFilter == FilterTools

SpecFilter == InitFilter /\ [][NextFilter]_vars

-----------------------------------------------------------------------------
(* The execute functions of hybridUiTools on their own *)

\* The clients hybridUiTools(apiClient) may be built over: none, and the
\* one main() builds from the options, with or without an API key
HybridClients == {NullClient, apiClient}

\* the three tools of hybridUiTools that choose between the API and a
\* static result
HybridNames == {"abp_generate_component", "abp_get_themes", "abp_generate_form"}

InitHybrid ==
    /\ options \in {o \in OptionSets : o.stdio}
    /\ pc = "hybrid"
    /\ connected = FALSE
    /\ exitCode = NoExit
    /\ toolHandlers = hybridUiTools
    /\ request = NoRequest
    /\ response = NoResponse
    /\ effects = Effects(0, FALSE)
    /\ registry = EmptyObject
    /\ filtered = EmptyObject
    /\ listings = NoListings
    /\ startup = NotStarted

\* await hybridUiTools(client)[name].execute(args)
ExecuteTool ==
    /\ pc = "hybrid"
    /\ \E name \in DOMAIN toolHandlers :
       \E args \in ArgsWithEnums(toolHandlers[name].inputSchema) :
       \E client \in HybridClients :
       \E remote \in RemoteOutcomes :
          LET closure == toolHandlers[name].execute
              out == IF closure.kind = "hybrid"
                     THEN ExecuteHybrid(name, closure, args, client, remote)
                     ELSE ExecuteStatic(name, closure, args)
          IN  /\ request' = [method |-> "execute", name |-> name,
                             arguments |-> args, apiClient |-> client]
              /\ response' = [kind |-> IF out.threw THEN "threw" ELSE "returned",
                              result |-> out.result, error |-> out.error]
              /\ effects' = [Effects(out.calls, TRUE) EXCEPT
                                !.remote = IF out.calls > 0 THEN remote ELSE @]
    /\ UNCHANGED <<options, pc, connected, exitCode, toolHandlers, registry,
                   filtered, listings, startup>>

NextHybrid == ExecuteTool

SpecHybrid == InitHybrid /\ [][NextHybrid]_vars

-----------------------------------------------------------------------------
(* The list methods of AbpApiClient on their own *)

\* a JSON array, and the envelope { items: [...], totalCount } around one
JsList(elems) == [t |-> "array", elems |-> elems]
ItemsEnvelope(elems) ==
    [t |-> "object",
     props |-> [items |-> JsList(elems), totalCount |-> Len(elems)]]

\* The bodies the remote may answer a list request with: up to MaxItems
\* items, bare or in an envelope
ItemPool == {"a", "b"}
ItemLists == UNION {[1..n -> ItemPool] : n \in 0..MaxItems}
ResponseBodies ==
    {JsList(l) : l \in ItemLists} \cup {ItemsEnvelope(l) : l \in ItemLists}

\* response.data.items: an array has no such property
ItemsOf(data) ==
    IF data.t = "object" /\ "items" \in DOMAIN data.props
    THEN data.props.items
    ELSE Undefined

\* a || b, for a an array, an object or undefined
OrElse(a, b) == IF a.t = "undefined" THEN b ELSE a

\* the methods that return `response.data.items || response.data`
ItemsOrData ==
    {"getApplications", "getModules", "getEntities", "getPermissions",
     "getPermissionsByGroup", "getUsers", "getTenants", "getAuditLogs",
     "getBackgroundJobs"}

\* the methods that return `response.data.items || []`
ItemsOrEmpty ==
    {"getThemes", "getLayouts", "getMenus", "getWidgets",
     "getLocalizationResources", "getSupportedCultures"}

ListOperations == ItemsOrData \cup ItemsOrEmpty

\* what list method op resolves with when the remote answers 2xx with data
ListResult(op, data) ==
    IF op \in ItemsOrData
    THEN OrElse(ItemsOf(data), data)
    ELSE OrElse(ItemsOf(data), JsList(<<>>))

InitClient ==
    /\ options = [apiKey |-> "secret-key", infoOnlyMode |-> FALSE, stdio |-> TRUE]
    /\ pc = "client"
    /\ connected = FALSE
    /\ exitCode = NoExit
    /\ toolHandlers = EmptyObject
    /\ request \in {[method |-> "client", op |-> op, data |-> data] :
                       op \in ListOperations, data \in ResponseBodies}
    /\ response = NoResponse
    /\ effects = Effects(0, FALSE)
    /\ registry = EmptyObject
    /\ filtered = EmptyObject
    /\ listings = NoListings
    /\ startup = NotStarted

\* await apiClient.<op>(), the remote answering with request.data
ResolveList ==
    /\ pc = "client"
    /\ pc' = "resolved"
    /\ response' = [kind |-> "resolved",
                    value |-> ListResult(request.op, request.data)]
    /\ effects' = [Effects(1, FALSE) EXCEPT !.remote = "ok"]
    /\ UNCHANGED <<options, connected, exitCode, toolHandlers, request,
                   registry, filtered, listings, startup>>

NextClient == ResolveList

SpecClient == InitClient /\ [][NextClient]_vars

-----------------------------------------------------------------------------
(* The registry construction on its own: { ...first(apiClient), ...second(apiClient) } *)

\* Names the tools of a group may have
GroupNames == {"abp_get_themes", "abp_generate_component", "abp_get_users"}

\* Tool groups of at most MaxGroup tools, and the two groups of the
\* repository that define the same names, uiTools and hybridUiTools
ToolGroups ==
    UNION {[names -> RegistryEntries] :
              names \in {N \in SUBSET GroupNames : Cardinality(N) <= MaxGroup}}
        \cup {uiTools, hybridUiTools}

InitMerge ==
    /\ options = [apiKey |-> "", infoOnlyMode |-> FALSE, stdio |-> TRUE]
    /\ pc = "merge"
    /\ connected = FALSE
    /\ exitCode = NoExit
    /\ toolHandlers = EmptyObject
    /\ request \in {[method |-> "abpTools", groups |-> <<first, second>>] :
                       first \in ToolGroups, second \in ToolGroups}
    /\ response = NoResponse
    /\ effects = Effects(0, FALSE)
    /\ registry = EmptyObject
    /\ filtered = EmptyObject
    /\ listings = NoListings
    /\ startup = NotStarted

\* return { ...first, ...second }
MergeGroups ==
    /\ pc = "merge"
    /\ pc' = "merged"
    /\ toolHandlers' = Spread(request.groups[1], request.groups[2])
    /\ UNCHANGED <<options, connected, exitCode, request, response, effects,
                   registry, filtered, listings, startup>>

NextMerge == MergeGroups

SpecMerge == InitMerge /\ [][NextMerge]_vars

-----------------------------------------------------------------------------
(* abp_get_background_jobs on its own, over the job lists the remote returns *)

\* AbpBackgroundJob, in the fields the tool reads
BackgroundJobs ==
    [jobType : {"EmailSendingJob"},
     tryCount : 0..MaxTry,
     maxTryCount : 0..MaxTry,
     isAbandoned : BOOLEAN]

JobLists == UNION {[1..n -> BackgroundJobs] : n \in 0..MaxJobs}

\* a pending test that forgets the abandoned flag
IsPendingJobIgnoresAbandoned(j) == j.tryCount < j.maxTryCount

\* the three filters of the result
IsPendingJob(j) == ~j.isAbandoned /\ j.tryCount < j.maxTryCount
IsCompletedJob(j) == ~j.isAbandoned /\ j.tryCount >= j.maxTryCount
IsAbandonedJob(j) == j.isAbandoned

\* what execute returns once apiClient.getBackgroundJobs has resolved with jobs
BackgroundJobsResult(jobs) ==
    [success |-> TRUE,
     data |-> jobs,
     count |-> Len(jobs),
     pending |-> Len(SelectSeq(jobs, IsPendingJob)),
     completed |-> Len(SelectSeq(jobs, IsCompletedJob)),
     abandoned |-> Len(SelectSeq(jobs, IsAbandonedJob)),
     jobTypes |-> {jobs[i].jobType : i \in DOMAIN jobs}]

InitJobs ==
    /\ options = [apiKey |-> "secret-key", infoOnlyMode |-> FALSE, stdio |-> TRUE]
    /\ pc = "jobs"
    /\ connected = FALSE
    /\ exitCode = NoExit
    /\ toolHandlers = backgroundJobTools
    /\ request \in {[method |-> "execute", name |-> "abp_get_background_jobs",
                     arguments |-> EmptyObject, data |-> data] :
                       data \in {JsList(l) : l \in JobLists}
                                   \cup {ItemsEnvelope(l) : l \in JobLists}}
    /\ response = NoResponse
    /\ effects = Effects(0, FALSE)
    /\ registry = EmptyObject
    /\ filtered = EmptyObject
    /\ listings = NoListings
    /\ startup = NotStarted

\* await abp_get_background_jobs.execute({}), the remote answering with
\* request.data
GetBackgroundJobs ==
    /\ pc = "jobs"
    /\ pc' = "counted"
    /\ LET jobs == ListResult("getBackgroundJobs", request.data).elems
       IN  response' = [kind |-> "returned", result |-> BackgroundJobsResult(jobs),
                        error |-> ""]
    /\ effects' = [Effects(1, TRUE) EXCEPT !.remote = "ok"]
    /\ UNCHANGED <<options, connected, exitCode, toolHandlers, request,
                   registry, filtered, listings, startup>>

NextJobs == GetBackgroundJobs

SpecJobs == InitJobs /\ [][NextJobs]_vars

-----------------------------------------------------------------------------
(* Properties *)

\* the request being answered is a call-tool request
IsCall == request.method = "tools/call"
CallName == request.params.name
CallArgs ==
    IF "arguments" \in DOMAIN request.params THEN request.params.arguments
    ELSE EmptyObject

\* the answer is a result (the handler returned), and one marked isError
IsResult == response.kind = "result"
IsErrorResult ==
    IsResult /\ "isError" \in DOMAIN response.result /\ response.result.isError
ResultText == response.result.content[1].text
\* the object a successful call serialised into its text
Payload == ResultText.json

\* the client was built with a non-empty API key
HasCredential(client) ==
    client # NullClient /\ client.config.apiKey # ""

\* the arguments of a direct execute pass the schema the tool parses them with
HasValidArguments(req) ==
    LET closure == toolHandlers[req.name].execute
    IN  closure.validates => ZodIssues(closure.zod, req.arguments) = {}

\* the request is a direct execute of one of the three hybrid tools
IsHybridExecute(req) == req.method = "execute" /\ req.name \in HybridNames

\* C1: whatever the registry, filterInfoOnlyTools returns a table whose names
\* all belong to the 13-name allow-list, each returned entry is the entry the
\* registry holds under that name, and the registry is the same after the
\* call as before.
C1_FilterReturnsAllowListedEntries ==
    [][(pc = "filter" /\ pc' = "filtered") =>
          /\ Cardinality(infoOnlyToolNames) = 13
          /\ DOMAIN filtered' \subseteq infoOnlyToolNames
          /\ \A n \in DOMAIN filtered' :
                n \in DOMAIN registry /\ filtered'[n] = registry[n]
          /\ registry' = registry]_vars

C1_Witness ==
    /\ pc = "filtered"
    /\ registry = abpTools
    /\ "abp_get_themes" \in DOMAIN filtered
    /\ "abp_get_users" \notin DOMAIN filtered
    /\ filtered["abp_get_themes"] = abpTools["abp_get_themes"]

\* C2: in info-only mode without an API key, abp_get_users is not in the
\* visible table, and a call of abp_get_themes is answered with a result
\* that is no error and carries success true, mode "static" and
\* data.availableThemes.
C2_ThemesStaticInInfoOnlyMode ==
    (options.infoOnlyMode /\ options.apiKey = "") =>
        /\ "abp_get_users" \notin DOMAIN toolHandlers
        /\ (IsCall /\ CallName = "abp_get_themes") =>
              /\ IsResult
              /\ ~IsErrorResult
              /\ Payload.success = TRUE
              /\ "mode" \in DOMAIN Payload
              /\ Payload.mode = "static"
              /\ "availableThemes" \in DOMAIN Payload.data

\* C3: in info-only mode, a call of a tool abpTools registers but the filter
\* hides is answered with a result marked isError whose text says that the
\* API key is required, and no HTTP request is issued.
C3_HiddenToolAsksForCredential ==
    (options.infoOnlyMode /\ IsCall
        /\ CallName \in DOMAIN abpTools \ DOMAIN toolHandlers) =>
        /\ IsErrorResult
        /\ ResultText = ApiKeyRequiredText
        /\ effects.calls = 0

\* C4: a hybrid tool executed with arguments that satisfy its declared
\* schema, over no client or a client without API key, returns success true
\* and mode "static" and issues no HTTP request; and the result is the one
\* the same tool returned for the same arguments the time before.
C4_HybridStaticWithoutCredential ==
    [][(/\ IsHybridExecute(request')
        /\ ~ViolatesDeclared(toolHandlers[request'.name].inputSchema,
                             request'.arguments)
        /\ ~HasCredential(request'.apiClient)) =>
          /\ response'.kind = "returned"
          /\ response'.result.success = TRUE
          /\ response'.result.mode = "static"
          /\ effects'.calls = 0
          /\ (/\ IsHybridExecute(request)
              /\ request.name = request'.name
              /\ request.arguments = request'.arguments
              /\ ~HasCredential(request.apiClient)) =>
                response' = response]_vars

C4_Witness ==
    /\ IsHybridExecute(request)
    /\ request.name = "abp_generate_form"
    /\ request.apiClient # NullClient
    /\ ~HasCredential(request.apiClient)
    /\ response.kind = "returned"
    /\ response.result.mode = "static"
    /\ effects.calls = 0

\* C5: a hybrid tool executed over a client with an API key, whose HTTP
\* request fails, does not throw: it returns success true, mode "static"
\* and a warning.
C5_HybridFallbackOnRemoteFailure ==
    (/\ IsHybridExecute(request)
     /\ HasCredential(request.apiClient)
     /\ effects.remote \in RemoteFailures) =>
        /\ response.kind = "returned"
        /\ response.result.success = TRUE
        /\ response.result.mode = "static"
        /\ "warning" \in DOMAIN response.result

C5_Witness ==
    /\ IsHybridExecute(request)
    /\ request.name = "abp_get_themes"
    /\ effects.calls = 1
    /\ effects.remote = "Network Error"
    /\ response.kind = "returned"
    /\ "warning" \in DOMAIN response.result

\* C6: a call of a name abpTools does not register is answered with an
\* error that names "Unknown tool", whatever the mode and the API key.
C6_UnregisteredNameIsUnknownTool ==
    (IsCall /\ CallName \notin DOMAIN abpTools) =>
        \/ /\ response.kind = "error"
           /\ response.message = "Unknown tool: " \o CallName
        \/ /\ IsErrorResult
           /\ ResultText = "Error: Unknown tool: " \o CallName

\* C7: answering a request, whatever its kind and outcome, leaves the
\* process running with its transport attached, at the same point of main()
\* and with the same tool table.
C7_RequestsLeaveProcessReady ==
    [][(Idle /\ ~Idle') =>
          /\ connected'
          /\ exitCode' = NoExit
          /\ pc' = pc
          /\ toolHandlers' = toolHandlers]_vars

C7_Witness ==
    /\ Ready
    /\ IsCall
    /\ IsErrorResult
    /\ effects.remote \in RemoteFailures

\* C8: a call of a visible tool with arguments that violate its declared
\* schema is answered with a result marked isError, and no HTTP request is
\* issued.
C8_InvalidArgumentsRejected ==
    (/\ IsCall
     /\ CallName \in DOMAIN toolHandlers
     /\ ViolatesDeclared(toolHandlers[CallName].inputSchema, CallArgs)) =>
        /\ IsErrorResult
        /\ effects.calls = 0

\* C9: a call of abp_grant_permission whose providerName is neither "R" nor
\* "U" issues no HTTP request and is never answered with a success; when
\* execute runs, the answer is the validation error.
C9_GrantPermissionProviderValidated ==
    (/\ IsCall
     /\ CallName = "abp_grant_permission"
     /\ Get(CallArgs, "providerName") \notin {JsString("R"), JsString("U")}) =>
        /\ effects.calls = 0
        /\ IsResult => IsErrorResult
        /\ effects.executed => ResultText = "Error: " \o ZodErrorMessage

C9_Witness ==
    /\ IsCall
    /\ CallName = "abp_grant_permission"
    /\ Get(CallArgs, "providerName") = JsString("zzz")
    /\ effects.executed
    /\ IsErrorResult

\* C10: outside info-only mode and without an API key, a call of any tool
\* abpTools registers is answered with a result marked isError whose text
\* says the API key is required; execute does not run, no HTTP request is
\* issued, and the handler does not end the process.
C10_MissingApiKeyIsErrorResult ==
    (/\ IsCall
     /\ ~options.infoOnlyMode
     /\ options.apiKey = ""
     /\ CallName \in DOMAIN abpTools) =>
        /\ IsErrorResult
        /\ ResultText = ApiKeyRequiredText
        /\ ~effects.executed
        /\ effects.calls = 0
        /\ effects.exit = NoExit
        /\ exitCode # 1

C10_Witness ==
    /\ IsCall
    /\ ~options.infoOnlyMode
    /\ options.apiKey = ""
    /\ CallName = "abp_get_users"
    /\ IsErrorResult
    /\ Ready

\* C11: when the HTTP request a call-tool request leads to fails (no answer,
\* or a status outside 2xx), the answer is a result marked isError whose
\* text carries the message of the failed request.
C11_RemoteFailureIsErrorResult ==
    (IsCall /\ effects.remote \in RemoteFailures) =>
        /\ IsErrorResult
        /\ ResultText = "Error: " \o effects.remote
        /\ effects.exit = NoExit

C11_Witness ==
    /\ IsCall
    /\ CallName = "abp_get_users"
    /\ effects.calls = 1
    /\ effects.remote = "Request failed with status code 401"
    /\ IsErrorResult

\* the table the options select when the process starts: the registry, or in
\* info-only mode its entries under allow-listed names
VisibleAtStartup ==
    IF options.infoOnlyMode
    THEN [n \in DOMAIN abpTools \cap infoOnlyToolNames |-> abpTools[n]]
    ELSE abpTools

\* C12: a list-tools request returns what the list-tools request before it
\* returned, whether or not call-tool requests came in between; the listing
\* is the name, description and inputSchema of every entry of the table the
\* options selected at startup.
C12_ListingIsIdempotent ==
    /\ listings.previous # NoListing => listings.last = listings.previous
    /\ listings.last # NoListing =>
          listings.last =
              [tools |-> {[name |-> VisibleAtStartup[n].name,
                           description |-> VisibleAtStartup[n].description,
                           inputSchema |-> VisibleAtStartup[n].inputSchema] :
                          n \in DOMAIN VisibleAtStartup}]

C12_Witness ==
    /\ request.method = "tools/list"
    /\ options.infoOnlyMode
    /\ listings.previous # NoListing
    /\ listings.between
    /\ response.result = listings.previous

\* C13: for an allow-listed name the registry does not hold, the table
\* filterInfoOnlyTools returns has no entry, not even an undefined one: its
\* names are the allow-listed names of the registry, each with a handler.
C13_AbsentAllowListNameSkipped ==
    pc = "filtered" =>
        /\ \A n \in infoOnlyToolNames \ DOMAIN registry : n \notin DOMAIN filtered
        /\ DOMAIN filtered = DOMAIN registry \cap infoOnlyToolNames
        /\ \A n \in DOMAIN filtered : filtered[n] # Undefined

C13_Witness ==
    /\ pc = "filtered"
    /\ "abp_get_info" \notin DOMAIN registry
    /\ "abp_get_ui_examples" \in DOMAIN registry
    /\ DOMAIN filtered = {"abp_get_ui_examples"}

\* C14: in info-only mode without an API key, abp_get_info is in the visible
\* table, and a call of it is answered with a result that is no error.
C14_GetInfoServedInInfoOnlyMode ==
    (options.infoOnlyMode /\ options.apiKey = "") =>
        /\ "abp_get_info" \in DOMAIN toolHandlers
        /\ (IsCall /\ CallName = "abp_get_info") => (IsResult /\ ~IsErrorResult)

\* C15: a list method resolves with the items the remote sent, whether the
\* body is an envelope with `items` or the bare array.
C15_ListMethodsAcceptBothShapes ==
    pc = "resolved" =>
        response.value = IF request.data.t = "array"
                         THEN request.data
                         ELSE request.data.props.items

\* C16: answering a call-tool request issues at most one HTTP request, and
\* the answer is made from the outcome of that request: a success when the
\* remote answered 2xx, the error result when the request failed.
C16_AtMostOneCallAwaited ==
    IsCall =>
        /\ effects.calls \in {0, 1}
        /\ effects.calls = 0 => effects.remote = "not called"
        /\ effects.calls = 1 =>
              \/ effects.remote = "ok" /\ IsResult /\ ~IsErrorResult
              \/ effects.remote \in RemoteFailures /\ IsErrorResult

C16_Witness ==
    /\ IsCall
    /\ CallName = "abp_get_audit_summary"
    /\ effects.calls = 1
    /\ effects.remote = "ok"
    /\ IsResult
    /\ ~IsErrorResult

\* C17: started with --stdio and without an API key, in info-only mode or
\* not, the process can attach its transport and is then ready, past the
\* startup code, with no connection test pending; once the transport is
\* attached, the process ends only with status 0.
C17_StartsWithoutCredential ==
    (options.stdio /\ options.apiKey = "") =>
        /\ (pc = "start" /\ exitCode = NoExit) =>
              ENABLED (Connect /\ connected' /\ exitCode' = NoExit /\ pc' = "done")
        /\ (connected /\ exitCode = NoExit) => pc = "done"
        /\ (connected /\ exitCode # NoExit) => exitCode = 0

C17_Witness ==
    /\ options.stdio
    /\ options.apiKey = ""
    /\ ~options.infoOnlyMode
    /\ Ready
    /\ pc = "done"
    /\ IsCall
    /\ IsResult

\* C18: a failed attach of the transport ends the process with a status
\* other than 0, the transport not attached; SIGINT ends it with status 0;
\* and SIGINT can arrive in every state of a running process, a failed
\* attach in every state that stands before the attach.
C18_ExitStatuses ==
    /\ [][/\ ConnectFails => (exitCode' \notin {0, NoExit} /\ ~connected')
          /\ Sigint => exitCode' = 0]_vars
    /\ [](exitCode = NoExit => ENABLED Sigint)
    /\ []((pc = "start" /\ options.stdio /\ exitCode = NoExit) =>
             ENABLED ConnectFails)

C18_Witness ==
    /\ options.stdio
    /\ pc = "exited"
    /\ exitCode = 1
    /\ ~connected

\* C19: in every state the table the handlers read is the one the options
\* selected when the process started, and no step changes the options or
\* the table.
C19_ToolTableFixedAtStartup ==
    /\ [](toolHandlers = VisibleAtStartup)
    /\ [][options' = options /\ toolHandlers' = toolHandlers]_vars

C19_Witness ==
    /\ Ready
    /\ IsCall
    /\ CallName = "abp_delete_user"
    /\ effects.executed
    /\ effects.remote = "ok"
    /\ "abp_delete_user" \in DOMAIN toolHandlers
    /\ toolHandlers = abpTools

\* C20: the registry built from two groups holds every name of either
\* group; under a name both define it holds the definition of the second
\* group, under the others the only definition there is.
C20_LaterGroupWins ==
    pc = "merged" =>
        LET first == request.groups[1]
            second == request.groups[2]
        IN  /\ DOMAIN toolHandlers = DOMAIN first \cup DOMAIN second
            /\ \A n \in DOMAIN second : toolHandlers[n] = second[n]
            /\ \A n \in DOMAIN first \ DOMAIN second : toolHandlers[n] = first[n]

C20_Witness ==
    /\ pc = "merged"
    /\ request.groups = <<uiTools, hybridUiTools>>
    /\ toolHandlers["abp_get_themes"] = hybridUiTools["abp_get_themes"]
    /\ toolHandlers["abp_get_themes"] # uiTools["abp_get_themes"]
    /\ toolHandlers["abp_get_layouts"] = uiTools["abp_get_layouts"]

\* C21: no two of the groups abpTools spreads define the same name; outside
\* info-only mode the table holds, under each name a group defines, that
\* group's handler and nothing else, and the name field of each entry is
\* its key.
C21_ToolNamesUnique ==
    /\ \A i, j \in DOMAIN ContributingGroups :
          i # j => DOMAIN ContributingGroups[i] \cap DOMAIN ContributingGroups[j] = {}
    /\ ~options.infoOnlyMode =>
          /\ DOMAIN toolHandlers =
                UNION {DOMAIN ContributingGroups[i] : i \in DOMAIN ContributingGroups}
          /\ \A i \in DOMAIN ContributingGroups :
             \A n \in DOMAIN ContributingGroups[i] :
                toolHandlers[n] = ContributingGroups[i][n]
          /\ \A n \in DOMAIN toolHandlers : toolHandlers[n].name = n

C21_Witness ==
    /\ Ready
    /\ ~options.infoOnlyMode
    /\ request.method = "tools/list"
    /\ Cardinality(response.result.tools) = 58
    /\ Cardinality(DOMAIN toolHandlers) = 58

\* The handler's answer to the request in hand, had the remote done remote
\* and the clock shown now, on the table selected at startup
AnswerAt(remote, now) ==
    CallToolHandler(VisibleAtStartup, options, apiClient, request.params,
                    remote, now)

\* C22 as stated: the answer to a call-tool request is the one the handler
\* gives for the tool name, the arguments, the startup options and the outcome
\* of the HTTP request alone: it is the same at whatever instant the request
\* is served, and whatever requests were answered before.
C22_AnswerFromRequestAndRemoteOnly ==
    IsCall =>
        \E remote \in RemoteOutcomes :
            /\ effects.remote \in {remote, "not called"}
            /\ \A now \in Instants :
                  /\ response = AnswerAt(remote, now).response
                  /\ effects.calls = AnswerAt(remote, now).effects.calls
                  /\ effects.executed = AnswerAt(remote, now).effects.executed

\* C22 amended: the answer to a call-tool request, and what answering it did,
\* is what the handler gives for the request, the startup options, the
\* outcome of the HTTP request and, for abp_get_audit_summary alone, the
\* instant the clock shows, whatever requests were answered before.
C22_CallAnswerIndependentOfHistory ==
    IsCall =>
        \E remote \in RemoteOutcomes :
            /\ effects.remote \in {remote, "not called"}
            /\ \E now \in Instants :
                  /\ response = AnswerAt(remote, now).response
                  /\ effects.calls = AnswerAt(remote, now).effects.calls
                  /\ effects.executed = AnswerAt(remote, now).effects.executed
            /\ CallName # "abp_get_audit_summary" =>
                  \A now \in Instants :
                      response = AnswerAt(remote, now).response

C22_Witness ==
    /\ IsCall
    /\ pc = "done"
    /\ listings.previous # NoListing
    /\ listings.between
    /\ effects.executed
    /\ effects.remote = "ok"
    /\ CallName = "abp_get_audit_summary"
    /\ Payload.data.period.endDate.iso = MaxClock

C24_FallbackIsStaticPlusWarning ==
    /\ [][(/\ IsHybridExecute(request)
           /\ IsHybridExecute(request')
           /\ request'.name = request.name
           /\ request'.arguments = request.arguments
           /\ HasValidArguments(request)
           /\ ~HasCredential(request.apiClient)
           /\ HasCredential(request'.apiClient)
           /\ effects'.remote \in RemoteFailures) =>
             /\ response.kind = "returned"
             /\ response'.kind = "returned"
             /\ DOMAIN response'.result = DOMAIN response.result \cup {"warning"}
             /\ "warning" \notin DOMAIN response.result
             /\ \A k \in DOMAIN response.result :
                   response'.result[k] = response.result[k]]_vars
    /\ []((/\ IsHybridExecute(request)
           /\ HasValidArguments(request)) =>
             /\ response.kind = "returned"
             /\ "warning" \in DOMAIN response.result
                   <=> (effects.calls > 0 /\ effects.remote \in RemoteFailures))

C24_Witness ==
    /\ IsHybridExecute(request)
    /\ request.name = "abp_generate_form"
    /\ HasValidArguments(request)
    /\ HasCredential(request.apiClient)
    /\ effects.calls = 1
    /\ effects.remote = "Request failed with status code 401"
    /\ response.kind = "returned"
    /\ response.result.mode = "static"
    /\ response.result.warning = "API call failed, generated static template instead"

\* C25: a process started without API key and without --info-only-mode
\* issues no HTTP request at any time: the connection test is never in
\* flight, and every call-tool request is answered with no execute function
\* run and no request sent.
C25_NoOutboundRequestWithoutCredential ==
    (options.apiKey = "" /\ ~options.infoOnlyMode) =>
        /\ pc # "testing"
        /\ effects.calls = 0
        /\ effects.remote = "not called"
        /\ ~effects.executed

C25_Witness ==
    /\ options.apiKey = ""
    /\ ~options.infoOnlyMode
    /\ pc = "done"
    /\ IsCall
    /\ CallName = "abp_get_themes"
    /\ IsErrorResult
    /\ ResultText = ApiKeyRequiredText
    /\ effects.calls = 0

\* the lines of the startup log
Logged == {startup.log[i] : i \in DOMAIN startup.log}

\* C26: the connection test is issued only once the transport is attached; a
\* connection test that fails is logged as a warning and leaves the process
\* running, the transport attached and the tool table the one selected at
\* startup; in info-only mode the connection test is never issued.
C26_ConnectionTestAfterAttachAndHarmless ==
    /\ [](startup.test # "not issued" => connected)
    /\ [][(startup.test = "in flight" /\ startup'.test = "failed") =>
             /\ "Warning: Could not connect to ABP API" \in Logged'
             /\ Ready'
             /\ toolHandlers' = toolHandlers
             /\ ListToolsHandler(toolHandlers').response
                   = ListToolsHandler(VisibleAtStartup).response]_vars
    /\ [](startup.test = "failed" => toolHandlers = VisibleAtStartup)
    /\ [](options.infoOnlyMode => startup.test = "not issued" /\ pc # "testing")

C26_Witness ==
    /\ startup.test = "failed"
    /\ "Warning: Could not connect to ABP API" \in Logged
    /\ Ready
    /\ pc = "done"
    /\ request.method = "tools/list"
    /\ IsResult
    /\ Cardinality(response.result.tools) = 58

\* the names a list-tools answer shows
ListedNames == {t.name : t \in response.result.tools}

\* C27: the names a list-tools request shows are decided by the
\* info-only flag alone, API key or not: without the flag they are all the
\* names abpTools registers, with it the allow-listed ones among them; and
\* without flag and without API key every call of a listed tool is answered
\* with the API-key-required error.
C27_VisibilityFromFlagOnly ==
    /\ (request.method = "tools/list" /\ IsResult) =>
          ListedNames = IF options.infoOnlyMode
                        THEN DOMAIN abpTools \cap infoOnlyToolNames
                        ELSE DOMAIN abpTools
    /\ (/\ IsCall
        /\ ~options.infoOnlyMode
        /\ options.apiKey = ""
        /\ CallName \in DOMAIN abpTools) =>
          /\ IsErrorResult
          /\ ResultText = ApiKeyRequiredText

C27_Witness ==
    /\ request.method = "tools/list"
    /\ IsResult
    /\ ~options.infoOnlyMode
    /\ options.apiKey = ""
    /\ ListedNames = DOMAIN abpTools
    /\ "abp_create_user" \in ListedNames
    /\ listings.between

\* C28: a hybrid tool executed with arguments its schema accepts issues an
\* HTTP request exactly when its client holds a non-empty API key, whatever
\* the info-only flag: over the client main() builds with --info-only-mode
\* and an API key, the request is issued.
C28_HybridPathFromCredentialOnly ==
    (/\ IsHybridExecute(request)
     /\ HasValidArguments(request)) =>
        /\ effects.calls = (IF HasCredential(request.apiClient) THEN 1 ELSE 0)
        /\ response.kind = "returned"
        /\ HasCredential(request.apiClient) <=>
              (response.result.mode = "api" \/ "warning" \in DOMAIN response.result)
        /\ (/\ options.infoOnlyMode
            /\ options.apiKey # ""
            /\ request.apiClient = apiClient) =>
              /\ effects.calls = 1
              /\ effects.remote \in RemoteOutcomes

C28_Witness ==
    /\ IsHybridExecute(request)
    /\ HasValidArguments(request)
    /\ options.infoOnlyMode
    /\ options.apiKey # ""
    /\ request.apiClient = apiClient
    /\ request.name = "abp_get_themes"
    /\ effects.calls = 1
    /\ effects.remote = "ok"
    /\ response.result.mode = "api"

\* C29: abp_generate_component and abp_generate_form executed with arguments
\* their schema rejects throw the validation error, with or without an API
\* key in the client: nothing is returned and no HTTP request is issued.
C29_HybridValidatesBeforeBranch ==
    (/\ IsHybridExecute(request)
     /\ request.name \in {"abp_generate_component", "abp_generate_form"}
     /\ ~HasValidArguments(request)) =>
        /\ response.kind = "threw"
        /\ response.error = ZodErrorMessage
        /\ response.result = EmptyObject
        /\ effects.calls = 0
        /\ effects.remote = "not called"

C29_Witness ==
    /\ IsHybridExecute(request)
    /\ request.name = "abp_generate_form"
    /\ ~HasValidArguments(request)
    /\ HasCredential(request.apiClient)
    /\ response.kind = "threw"
    /\ effects.calls = 0

\* the jobs the remote returned for the request in hand
ReturnedJobs ==
    IF request.data.t = "array" THEN request.data.elems
    ELSE request.data.props.items.elems

\* C30: for every list of jobs the remote returns, the pending, completed
\* and abandoned counts of abp_get_background_jobs add up to count, the
\* length of the list, and every job of the list passes exactly one of the
\* three filters.
C30_JobCountsPartitionList ==
    pc = "counted" =>
        LET r == response.result
        IN  /\ r.count = Len(ReturnedJobs)
            /\ r.data = ReturnedJobs
            /\ r.pending + r.completed + r.abandoned = r.count
            /\ \A i \in DOMAIN ReturnedJobs :
                  LET j == ReturnedJobs[i]
                  IN  Cardinality({c \in {"pending", "completed", "abandoned"} :
                          \/ c = "pending" /\ IsPendingJob(j)
                          \/ c = "completed" /\ IsCompletedJob(j)
                          \/ c = "abandoned" /\ IsAbandonedJob(j)}) = 1

C30_Witness ==
    /\ pc = "counted"
    /\ response.result.count = 2
    /\ response.result.pending = 1
    /\ response.result.abandoned = 1
    /\ response.result.completed = 0
    /\ \E i \in DOMAIN ReturnedJobs :
          ReturnedJobs[i].isAbandoned /\ ReturnedJobs[i].tryCount < ReturnedJobs[i].maxTryCount

====
